---- MODULE Spec2Model ----
(***************************************************************************)
(* TradeX backend: the timeframe aggregation engine (api/aggregator.py),   *)
(* the token-bucket rate limiter (api/rate_limiter.py) and the upstream    *)
(* WebSocket ingestion client (api/websocket_client.py, started by         *)
(* main.py's lifespan).                                                    *)
(*                                                                         *)
(* One module, several specifications over the same variables:             *)
(*   SpecPure    the pure functions _aggregate_bars and                    *)
(*               aggregate_historical_1m_to_timeframe on bounded inputs    *)
(*   SpecEngine  TimeframeAggregator fed one 1-minute bar at a time        *)
(*   SpecLimiter RateLimiter under calls and passing time                  *)
(*   SpecClient  InsightSentryWebSocketClient, heartbeat, close and        *)
(*               switch_symbol as cooperating asyncio tasks                *)
(*   SpecRetry   the tasks of SpecClient scheduled fairly, with an         *)
(*               upstream that may end each connection                     *)
(*   SpecService the DataCache and the historical query of main.py         *)
(*   SpecBroadcast  broadcast_bar_update over the frontend WebSockets      *)
(* Each specification leaves the variables of the others at their initial  *)
(* values.                                                                 *)
(***************************************************************************)
EXTENDS Integers, Sequences, FiniteSets, TLC

VARIABLES
    \* ---- SpecPure: one call of a pure function
    argBars,        \* the bar list passed to the function
    argTf,          \* the timeframe string passed to it
    ret,            \* what the call produced: [raised, value]
    called,         \* "none" | "_aggregate_bars" | "aggregate_historical"
    \* ---- SpecEngine / SpecClient: a TimeframeAggregator instance
    aggregator,     \* [buffers, daily_bars]: self._buffers, self._daily_bars
    result,         \* the dict returned by the last add_1m_bar call
    fed,            \* history: every bar fed to this instance, in order
    \* ---- SpecLimiter: a RateLimiter instance and the clock
    limiter,        \* [rate_limit, period, tokens, last_update]
    now,            \* time.time(), in units of 1/rate_limit second
    lim,            \* history of the calls: [calls, sleeps, lastSleep, ticked,
                    \*   resets, peeked, winCount, events]
    \* ---- SpecClient: an InsightSentryWebSocketClient and its tasks
    client,         \* [symbol, is_connected, reconnect_attempts]
    conn,           \* the connection self.websocket refers to: "none" (None),
                    \*   "open", "closed_ok" (clean close), "closed_err"
    inbox,          \* frames received on it and not yet read by the loop
    serverSubs,     \* symbols the upstream streams on this connection
    pc,             \* where each task stands: [connect, heartbeat, close, switch]
    task,           \* locals of the tasks: [delay, pending, new_symbol,
                    \* target_symbol]
    cl,             \* history of the client: see NoClientHistory
    \* ---- SpecService: the DataCache singleton and the history endpoint
    cache,          \* [store, cache_hits, cache_misses]: self._cache, ...
    svc,            \* history of the calls: see NoServiceHistory
    \* ---- SpecBroadcast: main.py's frontend_clients and one broadcast pass
    frontend_clients, \* the set of connected frontend WebSockets
    bc              \* the running broadcast_bar_update call: see NoBroadcast

pureVars    == <<argBars, argTf, ret, called>>
engineVars  == <<aggregator, result, fed>>
limiterVars == <<limiter, now, lim>>
clientVars  == <<client, conn, inbox, serverSubs, pc, task, cl>>
mainVars    == <<cache, svc, frontend_clients, bc>>
vars        == <<pureVars, engineVars, limiterVars, clientVars, mainVars>>

(***************************************************************************)
(* Bounds of the model.                                                    *)
(***************************************************************************)
\* The windows of 15m, 30m, 1H, 4H and 1D hold 15, 30, 60, 240 and 1440 bars
\* in the code (aggregator.py:49-53 and 63-67).  The code treats every
\* window alike, whatever its length, so the model keeps the order of the
\* lengths and scales them down; 1m, 5m and 1W keep the code's counts.
Bars15m == 6
Bars30m == 7
Bars1H == 8
Bars4H == 9
Bars1D == 10
\* bars fed to the live engine beyond the ones that complete 5 daily bars
ExtraFeed == 2
\* bars of the second shape among the bars fed to the live engine
MaxSpikes == 3
\* longest bar list handed to a pure function
MaxHistLen == 12
\* wait_if_needed calls made on a limiter beyond its capacity
ExtraCalls == 1
\* events between the calls on a limiter: the clock advancing, or a reset
MaxEvents == 2
\* what happens to a running client from outside: the frames the upstream
\* sends, the connections it ends, and the switch_symbol calls
MaxStimuli == 3

(***************************************************************************)
(* Bars (cache.py OHLCV) and the calendar of datetime.fromtimestamp.       *)
(***************************************************************************)
OHLCV(t, o, h, l, c, v) ==
    [time |-> t, open |-> o, high |-> h, low |-> l, close |-> c, volume |-> v]

\* Price/volume shapes the inputs are drawn from: they differ in every field.
Calm  == [open |-> 2, high |-> 4, low |-> 2, close |-> 3, volume |-> 1]
Spike == [open |-> 3, high |-> 5, low |-> 1, close |-> 1, volume |-> 2]
Shapes == {Calm, Spike}

BarOf(shape, t) ==
    OHLCV(t, shape.open, shape.high, shape.low, shape.close, shape.volume)

SecondsPerMinute == 60
SecondsPerDay == 86400

\* datetime.fromtimestamp(t).date(), as days since 1970-01-01 (the process is
\* taken to run in UTC; times are whole seconds >= 0).
DateOf(t) == t \div SecondsPerDay

\* The civil date of a day number (proleptic Gregorian), as datetime computes.
CivilOf(days) ==
    LET z   == days + 719468
        era == z \div 146097
        doe == z - era * 146097
        yoe == (doe - doe \div 1460 + doe \div 36524 - doe \div 146096) \div 365
        doy == doe - (365 * yoe + yoe \div 4 - yoe \div 100)
        mp  == (5 * doy + 2) \div 153
        d   == doy - (153 * mp + 2) \div 5 + 1
        m   == IF mp < 10 THEN mp + 3 ELSE mp - 9
        y   == yoe + era * 400 + (IF m <= 2 THEN 1 ELSE 0)
    IN  [year |-> y, month |-> m, day |-> d]

YearOf(t)  == CivilOf(DateOf(t)).year
MonthOf(t) == CivilOf(DateOf(t)).month

\* Day number of January 1st of a year.
Jan1(y) ==
    LET yy  == y - 1
        era == yy \div 400
        yoe == yy - era * 400
        doe == yoe * 365 + yoe \div 4 - yoe \div 100 + 306
    IN  era * 146097 + doe - 719468

\* ISO weekday, Monday = 1 .. Sunday = 7 (1970-01-01 was a Thursday).
IsoWeekday(days) == ((days + 3) % 7) + 1

IsLeap(y) == (y % 4 = 0 /\ y % 100 # 0) \/ y % 400 = 0

WeeksInYear(y) ==
    IF IsoWeekday(Jan1(y)) = 4 \/ (IsLeap(y) /\ IsoWeekday(Jan1(y)) = 3)
    THEN 53 ELSE 52

\* date.isocalendar()[1]: the ISO week number of a day.
IsoWeek(days) ==
    LET y   == CivilOf(days).year
        ord == days - Jan1(y) + 1
        w   == (ord - IsoWeekday(days) + 10) \div 7
    IN  IF w < 1 THEN WeeksInYear(y - 1)
        ELSE IF w > WeeksInYear(y) THEN 1
        ELSE w

(***************************************************************************)
(* Python's max, min and sum over a list, and list helpers.                *)
(***************************************************************************)
\* max(s), min(s) and sum(s) fold the list from its first element on; the
\* operators below fold the first n elements.
RECURSIVE MaxUpTo(_, _)
MaxUpTo(s, n) ==
    IF n = 1 THEN s[1]
    ELSE LET m == MaxUpTo(s, n - 1) IN IF s[n] > m THEN s[n] ELSE m

RECURSIVE MinUpTo(_, _)
MinUpTo(s, n) ==
    IF n = 1 THEN s[1]
    ELSE LET m == MinUpTo(s, n - 1) IN IF s[n] < m THEN s[n] ELSE m

RECURSIVE SumUpTo(_, _)
SumUpTo(s, n) == IF n = 0 THEN 0 ELSE SumUpTo(s, n - 1) + s[n]

PyMax(s) == MaxUpTo(s, Len(s))
PyMin(s) == MinUpTo(s, Len(s))
PySum(s) == SumUpTo(s, Len(s))

Highs(bars)   == [i \in 1..Len(bars) |-> bars[i].high]
Lows(bars)    == [i \in 1..Len(bars) |-> bars[i].low]
Volumes(bars) == [i \in 1..Len(bars) |-> bars[i].volume]

\* bars[-n:]
LastN(s, n) == IF Len(s) <= n THEN s ELSE SubSeq(s, Len(s) - n + 1, Len(s))

\* The value a call returns, or the exception it raises.
Returned(v) == [raised |-> "none", value |-> v]
Raised(e)   == [raised |-> e]

(***************************************************************************)
(* api/aggregator.py                                                       *)
(***************************************************************************)
Timeframes == {"1m", "5m", "15m", "30m", "1H", "4H", "1D", "1W", "1M"}

\* TIMEFRAMES[tf][0] of "1M": None (a variable number of bars).
None == 0

\* TimeframeAggregator.TIMEFRAMES[tf][0], bars_in_period.
TIMEFRAMES ==
    [tf \in Timeframes |->
        CASE tf = "1m"  -> 1
          [] tf = "5m"  -> 5
          [] tf = "15m" -> Bars15m
          [] tf = "30m" -> Bars30m
          [] tf = "1H"  -> Bars1H
          [] tf = "4H"  -> Bars4H
          [] tf = "1D"  -> Bars1D
          [] tf = "1W"  -> 5
          [] tf = "1M"  -> None]

\* The six windows add_1m_bar appends to, and the maxlen of each deque of
\* __init__ (the two daily-bar deques "1W" and "1M" are never appended to).
WindowTfs == {"5m", "15m", "30m", "1H", "4H", "1D"}
BufferTfs == WindowTfs \cup {"1W", "1M"}
Maxlen(tf) ==
    CASE tf = "5m"  -> 5
      [] tf = "15m" -> Bars15m
      [] tf = "30m" -> Bars30m
      [] tf = "1H"  -> Bars1H
      [] tf = "4H"  -> Bars4H
      [] tf = "1D"  -> Bars1D
      [] tf = "1W"  -> 5
      [] tf = "1M"  -> 31

\* TimeframeAggregator(): every deque and the daily-bar list empty.
NewAggregator ==
    [buffers |-> [tf \in BufferTfs |-> <<>>], daily_bars |-> <<>>]

\* A list in place of the bounded deque: nothing ever leaves it.
DequeAppendNoEvict(d, x, n) == Append(d, x)

\* deque(maxlen=n).append(x): the oldest element leaves a full deque.
DequeAppend(d, x, n) ==
    IF Len(d) >= n THEN Append(Tail(d), x) ELSE Append(d, x)

\* The OHLCV(...) expression that merges a non-empty list of bars: the same
\* text in _aggregate_bars, the chunk loop, _aggregate_to_daily and
\* _aggregate_to_weekly.
MergeBars(bars) ==
    OHLCV(bars[1].time,
          bars[1].open,
          PyMax(Highs(bars)),
          PyMin(Lows(bars)),
          bars[Len(bars)].close,
          PySum(Volumes(bars)))

\* _aggregate_bars taking the close of the first bar instead of the last.
aggregate_bars_first_close(bars) ==
    IF bars = <<>> THEN Raised("ValueError")
    ELSE Returned([MergeBars(bars) EXCEPT !.close = bars[1].close])

\* TimeframeAggregator._aggregate_bars(bars, timeframe)
aggregate_bars(bars) ==
    IF bars = <<>> THEN Raised("ValueError") ELSE Returned(MergeBars(bars))

\* Every daily bar so far, whatever its month.
CurrentMonthBarsUnfiltered(daily_bars, latest) == daily_bars

\* The trailing run of daily bars in the month and year of the last one.
RECURSIVE CurrentMonthBars(_, _)
CurrentMonthBars(daily_bars, latest) ==
    IF daily_bars = <<>> THEN <<>>
    ELSE LET bar == daily_bars[Len(daily_bars)] IN
         IF MonthOf(bar.time) = MonthOf(latest.time)
            /\ YearOf(bar.time) = YearOf(latest.time)
         THEN Append(CurrentMonthBars(
                         SubSeq(daily_bars, 1, Len(daily_bars) - 1), latest),
                     bar)
         ELSE <<>>

\* TimeframeAggregator._aggregate_monthly(daily_bars): <<bar>>, or <<>> for
\* the None it returns when there is nothing to aggregate.
aggregate_monthly(daily_bars) ==
    IF daily_bars = <<>> THEN <<>>
    ELSE LET run == CurrentMonthBars(daily_bars, daily_bars[Len(daily_bars)])
         IN  IF run = <<>> THEN <<>> ELSE <<aggregate_bars(run).value>>

\* Every daily bar so far in place of the last five.
weekly_bars_whole_list(daily_bars) == daily_bars

\* weekly_bars = self._daily_bars[-5:]
weekly_bars(daily_bars) == LastN(daily_bars, 5)

\* The dict add_1m_bar builds once the windows and the daily-bar list are
\* updated: a function from the timeframes it holds to one-bar lists.
\* daily says whether the 1D window is full on this call.
ResultDict(buffers, daily, daily_bars, bar) ==
    LET intraday == {tf \in {"5m", "15m", "30m", "1H", "4H"} :
                        Len(buffers[tf]) >= TIMEFRAMES[tf]}
        weekly == daily /\ Len(daily_bars) >= 5
        monthly == IF daily THEN aggregate_monthly(daily_bars) ELSE <<>>
        keys == {"1m"} \cup intraday
                \cup (IF daily THEN {"1D"} ELSE {})
                \cup (IF weekly THEN {"1W"} ELSE {})
                \cup (IF monthly # <<>> THEN {"1M"} ELSE {})
    IN  [tf \in keys |->
            CASE tf = "1m" -> <<bar>>
              [] tf \in {"5m", "15m", "30m", "1H", "4H"} ->
                    <<aggregate_bars(buffers[tf]).value>>
              [] tf = "1D" -> <<daily_bars[Len(daily_bars)]>>
              [] tf = "1W" -> <<aggregate_bars(weekly_bars(daily_bars)).value>>
              [] tf = "1M" -> monthly]

\* add_1m_bar keeping only the five latest daily bars.
add_1m_bar_keeping_five(agg, bar) ==
    LET buffers == [tf \in BufferTfs |->
                       IF tf # "1W" /\ tf # "1M"
                       THEN DequeAppend(agg.buffers[tf], bar, Maxlen(tf))
                       ELSE agg.buffers[tf]]
        daily == Len(buffers["1D"]) >= TIMEFRAMES["1D"]
        daily_bars == IF daily
                      THEN LastN(Append(agg.daily_bars,
                                        aggregate_bars(buffers["1D"]).value), 5)
                      ELSE agg.daily_bars
    IN  [agg |-> [buffers |-> buffers, daily_bars |-> daily_bars],
         result |-> ResultDict(buffers, daily, daily_bars, bar)]

\* TimeframeAggregator.add_1m_bar(bar) on the instance agg: the instance
\* afterwards and the returned dict.
add_1m_bar(agg, bar) ==
    LET buffers == [tf \in BufferTfs |->
                       IF tf # "1W" /\ tf # "1M"
                       THEN DequeAppend(agg.buffers[tf], bar, Maxlen(tf))
                       ELSE agg.buffers[tf]]
        daily == Len(buffers["1D"]) >= TIMEFRAMES["1D"]
        daily_bars == IF daily
                      THEN Append(agg.daily_bars,
                                  aggregate_bars(buffers["1D"]).value)
                      ELSE agg.daily_bars
    IN  [agg |-> [buffers |-> buffers, daily_bars |-> daily_bars],
         result |-> ResultDict(buffers, daily, daily_bars, bar)]

\* sorted(...) of a finite set of integers, as a sequence.
RECURSIVE SortedSeq(_)
SortedSeq(S) ==
    IF S = {} THEN <<>>
    ELSE LET m == CHOOSE x \in S : \A y \in S : x <= y
         IN  <<m>> \o SortedSeq(S \ {m})

\* _aggregate_to_daily(bars_1m): group by calendar date, sort, merge each.
DailyKey(bar) == DateOf(bar.time)
\* daily_groups[date]: the bars of one date, in list order.
DailyGroup(bars, date) == SelectSeq(bars, LAMBDA b : DailyKey(b) = date)
aggregate_to_daily(bars_1m) ==
    LET dates == SortedSeq({DailyKey(bars_1m[i]) : i \in 1..Len(bars_1m)})
    IN  [j \in 1..Len(dates) |-> MergeBars(DailyGroup(bars_1m, dates[j]))]

\* _aggregate_to_weekly(daily_bars): group by (date.year, ISO week number),
\* sort by that pair, merge each.  The pair is coded year * 100 + week.
WeekKey(bar) == YearOf(bar.time) * 100 + IsoWeek(DateOf(bar.time))
\* weekly_groups[week_key]: the bars of one week, in list order.
WeekGroup(bars, key) == SelectSeq(bars, LAMBDA b : WeekKey(b) = key)
aggregate_to_weekly(daily_bars) ==
    LET keys == SortedSeq({WeekKey(daily_bars[i]) : i \in 1..Len(daily_bars)})
    IN  [j \in 1..Len(keys) |-> MergeBars(WeekGroup(daily_bars, keys[j]))]

\* The chunk loop: for i in range(0, len(bars_1m), bars_needed), keeping the
\* chunks of full length.
RECURSIVE ChunkLoop(_, _)
ChunkLoop(bars_1m, bars_needed) ==
    IF bars_1m = <<>> THEN <<>>
    ELSE LET chunk == SubSeq(bars_1m, 1,
                             IF Len(bars_1m) < bars_needed
                             THEN Len(bars_1m) ELSE bars_needed)
             rest == SubSeq(bars_1m, Len(chunk) + 1, Len(bars_1m))
         IN  IF Len(chunk) = bars_needed
             THEN <<MergeBars(chunk)>> \o ChunkLoop(rest, bars_needed)
             ELSE ChunkLoop(rest, bars_needed)

\* The batch aggregator answering an empty list where it has no rule.
aggregate_historical_lenient(bars_1m, target_timeframe) ==
    IF target_timeframe = "1m" THEN Returned(bars_1m)
    ELSE IF target_timeframe \in {"15m", "30m", "1H", "4H", "1D"}
         THEN Returned(ChunkLoop(bars_1m, TIMEFRAMES[target_timeframe]))
         ELSE Returned(<<>>)

\* aggregate_historical_1m_to_timeframe(bars_1m, target_timeframe)
aggregate_historical_1m_to_timeframe(bars_1m, target_timeframe) ==
    IF target_timeframe = "1m" THEN Returned(bars_1m)
    ELSE IF target_timeframe \notin DOMAIN TIMEFRAMES THEN Raised("ValueError")
    ELSE LET bars_needed == TIMEFRAMES[target_timeframe] IN
         IF bars_needed = None THEN Raised("ValueError")
         ELSE IF bars_needed = 5
              THEN Returned(aggregate_to_weekly(aggregate_to_daily(bars_1m)))
              ELSE Returned(ChunkLoop(bars_1m, bars_needed))

\* The variables of a specification that is not running.
EngineIdle ==
    /\ aggregator = NewAggregator
    /\ result = <<>>
    /\ fed = <<>>

PureIdle ==
    /\ argBars = <<>>
    /\ argTf = "1m"
    /\ ret = Returned(<<>>)
    /\ called = "none"

\* InsightSentryWebSocketClient(api_key, symbol): __init__.
NewClient(symbol) ==
    [symbol |-> symbol, is_connected |-> FALSE, reconnect_attempts |-> 0]

\* The symbols a client may track; "A" stands for the "CME_MINI:MNQ1!" that
\* lifespan constructs the client with.
Symbols == {"A", "B"}

\* How many bars a data frame of the upstream may carry.
SeriesLengths == {1, 2}

\* appStart: the tasks are started the way lifespan starts them (FALSE: the
\* heartbeat coroutine is started by some other caller, at any time);
\* stimuli: the frames sent, connections ended, switch_symbol calls and
\* broadcasts upset by a frontend so far; consecFailures: how many of the
\* latest websockets.connect calls failed in a row; lastPing: what the
\* heartbeat's last send_ping did; barsSent: the bars the upstream has sent;
\* lastSwitch: how the last switch_symbol call ended; fedSyms: the symbol of
\* each bar fed to the current aggregator;
\* dropped: "dropped" once _message_loop has dropped a frame of the current
\* connection for a parse error or a missing field, "resumed" once it has
\* fed a later frame of that connection; resetFrom: what reconnect_attempts
\* was when websockets.connect returned the connection whose subscription
\* is being sent (0 at any other time);
\* directives: the symbols of the subscribe directives connect() has sent
\* on the current connection; forwarded: the timeframes passed to the
\* callback, in order, for the bar whose forwarding ended last;
\* switchSent: the directives the last switch_symbol call has sent, in
\* order.
NoClientHistory ==
    [appStart |-> TRUE, stimuli |-> 0, consecFailures |-> 0, lastPing |-> "none",
     barsSent |-> 0, lastSwitch |-> "none",
     fedSyms |-> <<>>, dropped |-> "none", resetFrom |-> 0,
     directives |-> <<>>, forwarded |-> <<>>, switchSent |-> <<>>]

ClientIdle ==
    /\ client = NewClient("A")
    /\ conn = "none"
    /\ inbox = <<>>
    /\ serverSubs = {}
    /\ pc = [connect |-> "created", heartbeat |-> "created",
             close |-> "idle", switch |-> "idle"]
    /\ task = [delay |-> 0, pending |-> <<>>, new_symbol |-> "A",
               target_symbol |-> ""]
    /\ cl = NoClientHistory

(***************************************************************************)
(* api/cache.py DataCache: the singleton get_cache() returns, shared by     *)
(* main.py and InsightSentryAPI.  Every method runs wholly inside           *)
(* `with self._lock`, so concurrent callers run one after another.          *)
(***************************************************************************)
\* The symbol and timeframe strings the callers pass: the direct timeframes
\* "1m" and "5m", the aggregated "1D" and "1M", and "2H", which is no key of
\* TIMEFRAME_MAP.
ServiceSymbols == {"A"}
ServiceTfs == {"1m", "5m", "1D", "1M", "2H"}
CacheKeys == ServiceSymbols \X ServiceTfs

\* What self._cache holds for a key: nothing (get returns None), or a list.
Absent == [present |-> FALSE, bars |-> <<>>]
Entry(bars) == [present |-> TRUE, bars |-> bars]

\* DataCache(): __init__.
NewDataCache ==
    [store |-> [k \in CacheKeys |-> Absent], cache_hits |-> 0, cache_misses |-> 0]

\* A get that counts its hits only.
cache_get_hits_only(c, key) ==
    [cache |-> IF c.store[key].present
               THEN [c EXCEPT !.cache_hits = @ + 1]
               ELSE c,
     value |-> c.store[key]]

\* DataCache.get(symbol, timeframe): the cache afterwards and the value.
cache_get(c, key) ==
    [cache |-> IF c.store[key].present
               THEN [c EXCEPT !.cache_hits = @ + 1]
               ELSE [c EXCEPT !.cache_misses = @ + 1],
     value |-> c.store[key]]

\* A set that appends to the list already stored instead of replacing it.
cache_set_merging(c, key, bars) ==
    [c EXCEPT !.store[key] = Entry(@.bars \o bars)]

\* DataCache.set(symbol, timeframe, bars).
cache_set(c, key, bars) == [c EXCEPT !.store[key] = Entry(bars)]

\* DataCache.has(symbol, timeframe).
cache_has(c, key) == c.store[key].present

\* DataCache.clear().
cache_clear(c) == [c EXCEPT !.store = [k \in CacheKeys |-> Absent]]

\* DataCache.get_stats(), without the derived hit rate.
cache_get_stats(c) ==
    [cache_hits |-> c.cache_hits, cache_misses |-> c.cache_misses,
     total_keys |-> Cardinality({k \in CacheKeys : c.store[k].present})]

\* The last call of a run: op is the method or endpoint; key and bars its
\* arguments; value what a cache method returned (has as an entry with no
\* bars, get_stats in stats); status, cached, respBars the HTTP response of
\* the history endpoint (status 0: no response); upstream whether a REST
\* request was sent while serving it, and reply what the upstream answered.
NoCall ==
    [op |-> "none", key |-> <<"A", "1m">>, bars |-> 0, value |-> Absent,
     stats |-> [cache_hits |-> 0, cache_misses |-> 0, total_keys |-> 0],
     status |-> 0, cached |-> FALSE, respBars |-> <<>>, upstream |-> FALSE,
     reply |-> "none"]

\* ops: calls made; getsHit, getsMiss: the get calls that returned a list,
\* and None, counted by the caller; lastSet: per key, what the latest set
\* since the latest clear stored; overwritten: the keys for which a set
\* replaced a different list; last: the last call.
NoServiceHistory ==
    [ops |-> 0, getsHit |-> 0, getsMiss |-> 0,
     lastSet |-> [k \in CacheKeys |-> Absent], overwritten |-> {},
     last |-> NoCall]

\* The frontend WebSockets that may connect to /ws/chart.
Sockets == {"w1", "w2", "w3"}

\* No broadcast_bar_update call in progress.  running: a call is between its
\* first and last statement; atStart: frontend_clients when it began; todo:
\* the members the `for` has not reached; reached: the sockets it has
\* yielded; sending: the socket whose
\* send_json is awaited; disconnected_clients: the local set; attempts:
\* send_json calls made per socket in this call; outcome: how the last call
\* ended; passes: calls so far; seen: the sockets that have connected;
\* changes: connects and disconnects so far; handlers: the sockets whose
\* websocket_chart handler is in its receive loop; removal: how the last
\* `frontend_clients.remove(websocket)` of a handler ended.
NoBroadcast ==
    [running |-> FALSE, atStart |-> {}, todo |-> {}, reached |-> {},
     sending |-> "none",
     disconnected_clients |-> {}, attempts |-> [w \in Sockets |-> 0],
     outcome |-> "none", passes |-> 0, seen |-> {}, changes |-> 0,
     handlers |-> {}, removal |-> "none"]

MainIdle ==
    /\ cache = NewDataCache
    /\ svc = NoServiceHistory
    /\ frontend_clients = {}
    /\ bc = NoBroadcast

(***************************************************************************)
(* api/rate_limiter.py                                                     *)
(*                                                                         *)
(* Time is counted in units of 1/rate_limit second and tokens in units of  *)
(* 1/period token, so that the refill elapsed * (rate_limit / period)      *)
(* tokens is `elapsed` token units for `elapsed` time units, one token is  *)
(* `period` token units and the wait (1.0 / rate_limit) * period seconds   *)
(* is `period` time units: every quantity of the code is then an integer   *)
(* (the rounding of Python floats is outside the model).                   *)
(***************************************************************************)
OneToken(l)     == l.period
FullBucket(l)   == l.rate_limit * l.period
PeriodUnits(l)  == l.period * l.rate_limit

Min(a, b) == IF a <= b THEN a ELSE b

\* RateLimiter(rate_limit, period), constructed at time t.
RateLimiter(rate_limit, period, t) ==
    [rate_limit |-> rate_limit, period |-> period,
     tokens |-> rate_limit * period, last_update |-> t]

\* tokens_to_add = elapsed * (rate_limit / period)
TokensToAdd(l, t) == t - l.last_update

\* wait_time = (1.0 / rate_limit) * period
WaitTime(l) == l.period

\* A wait of a whole period instead of the time of one token.
WaitIfNeededFullPeriod(l, t) ==
    LET refilled == Min(FullBucket(l), l.tokens + TokensToAdd(l, t))
        wait == IF refilled < OneToken(l) THEN PeriodUnits(l) ELSE 0
    IN  [limiter |-> [l EXCEPT
                        !.tokens = (IF wait > 0 THEN FullBucket(l)
                                    ELSE refilled) - OneToken(l),
                        !.last_update = t + wait],
         slept |-> wait]

\* RateLimiter.wait_if_needed() entered at time t, the lock held throughout:
\* the limiter afterwards and the time slept.
WaitIfNeeded(l, t) ==
    LET refilled == Min(FullBucket(l), l.tokens + TokensToAdd(l, t))
        wait == IF refilled < OneToken(l) THEN WaitTime(l) ELSE 0
    IN  [limiter |-> [l EXCEPT
                        !.tokens = (IF wait > 0 THEN FullBucket(l)
                                    ELSE refilled) - OneToken(l),
                        !.last_update = t + wait],
         slept |-> wait]

\* The refilled amount returned as it is, without the min against rate_limit.
GetAvailableTokensUncapped(l, t) == l.tokens + TokensToAdd(l, t)

\* RateLimiter.get_available_tokens() at time t.
GetAvailableTokens(l, t) == Min(FullBucket(l), l.tokens + TokensToAdd(l, t))

\* RateLimiter.reset() at time t.
Reset(l, t) == [l EXCEPT !.tokens = FullBucket(l), !.last_update = t]

(***************************************************************************)
(* SpecLimiter: one limiter, its callers and the clock.                    *)
(***************************************************************************)
\* The limiter of the REST client (insight_api.py:55) and a small one.
Configs == { [rate_limit |-> 25, period |-> 60],
             [rate_limit |-> 3, period |-> 4] }

\* calls: completed wait_if_needed calls; sleeps: how many of them slept;
\* lastSleep: the time the last one slept; ticked: the clock advanced between
\* calls; resets: reset calls; peeked: what a get_available_tokens call that
\* has just returned gave (-1 otherwise); winCount: the calls admitted in the
\* period that starts at construction; events: ticks and resets so far.
NoHistory ==
    [calls |-> 0, sleeps |-> 0, lastSleep |-> 0, ticked |-> FALSE,
     resets |-> 0, peeked |-> -1, winCount |-> 0, events |-> 0]

LimiterIdle ==
    /\ limiter = RateLimiter(25, 60, 0)
    /\ now = 0
    /\ lim = NoHistory

LimiterInit ==
    /\ \E c \in Configs : limiter = RateLimiter(c.rate_limit, c.period, 0)
    /\ now = 0
    /\ lim = NoHistory
    /\ PureIdle
    /\ EngineIdle
    /\ ClientIdle
    /\ MainIdle

\* Time passes while no call is in progress: half a token's, one token's or
\* a whole period's worth of it.
Tick ==
    /\ lim.events < MaxEvents
    /\ \E d \in {OneToken(limiter) \div 2, OneToken(limiter),
                 PeriodUnits(limiter)} :
        now' = now + d
    /\ lim' = [lim EXCEPT !.events = @ + 1, !.ticked = TRUE, !.peeked = -1]
    /\ UNCHANGED <<limiter, pureVars, engineVars, clientVars, mainVars>>

\* One wait_if_needed call, from entry to return (it sleeps holding the
\* lock, so no other call of the limiter runs meanwhile).
CallWaitIfNeeded ==
    /\ lim.calls < limiter.rate_limit + ExtraCalls
    /\ \E r \in {WaitIfNeeded(limiter, now)} :
        /\ limiter' = r.limiter
        /\ now' = now + r.slept
        /\ lim' = [lim EXCEPT
                     !.calls = @ + 1,
                     !.sleeps = @ + (IF r.slept > 0 THEN 1 ELSE 0),
                     !.lastSleep = r.slept,
                     !.peeked = -1,
                     !.winCount =
                        @ + (IF now + r.slept < PeriodUnits(limiter)
                             THEN 1 ELSE 0)]
    /\ UNCHANGED <<pureVars, engineVars, clientVars, mainVars>>

\* One get_available_tokens call.
CallGetAvailableTokens ==
    /\ lim.peeked = -1
    /\ lim' = [lim EXCEPT !.peeked = GetAvailableTokens(limiter, now)]
    /\ UNCHANGED <<limiter, now, pureVars, engineVars, clientVars, mainVars>>

\* One reset call.
CallReset ==
    /\ lim.events < MaxEvents
    /\ limiter' = Reset(limiter, now)
    /\ lim' = [lim EXCEPT !.events = @ + 1, !.resets = @ + 1, !.peeked = -1]
    /\ UNCHANGED <<now, pureVars, engineVars, clientVars, mainVars>>

LimiterNext ==
    \/ Tick
    \/ CallWaitIfNeeded
    \/ CallGetAvailableTokens
    \/ CallReset

SpecLimiter == LimiterInit /\ [][LimiterNext]_vars

\* C9: the limiter admits at most rate_limit calls in any window of `period`
\* seconds, whatever the sequence and spacing of wait_if_needed calls: here
\* for the window that starts when the limiter is constructed, and with no
\* reset call made.
C9_RateBound ==
    lim.resets = 0 => lim.winCount <= limiter.rate_limit

\* C10: on a fresh limiter with no time passing between the calls, the
\* first C calls of wait_if_needed do not sleep and the (C+1)-th sleeps
\* exactly period / rate_limit seconds, which is `period` time units of
\* 1 / rate_limit second, and is admitted then.
C10_BurstThenBlock ==
    (~lim.ticked /\ lim.resets = 0) =>
        /\ lim.calls <= limiter.rate_limit => lim.sleeps = 0 /\ now = 0
        /\ lim.calls = limiter.rate_limit + 1 =>
              /\ lim.sleeps = 1
              /\ lim.lastSleep = limiter.period
              /\ now = lim.lastSleep

\* The 26th back-to-back call on the configured limiter has slept.
C10_Witness ==
    /\ ~lim.ticked
    /\ lim.resets = 0
    /\ limiter.rate_limit = 25
    /\ limiter.period = 60
    /\ lim.calls = 26
    /\ lim.sleeps = 1
    /\ now = 60


\* C11: under any order of wait_if_needed, get_available_tokens and reset
\* calls (each holds the lock from entry to return, so concurrent callers run
\* one after another) and any passing of time, 0 <= tokens <= capacity, and
\* get_available_tokens never returns more than the capacity.
C11_TokenRange ==
    /\ 0 <= limiter.tokens
    /\ limiter.tokens <= FullBucket(limiter)
    /\ lim.peeked # -1 => lim.peeked <= FullBucket(limiter)

\* A get_available_tokens call after a consumed token and more idle time
\* than refills it: the cap acts.
C11_Witness ==
    /\ lim.calls >= 1
    /\ limiter.tokens < FullBucket(limiter)
    /\ limiter.tokens + TokensToAdd(limiter, now) > FullBucket(limiter)
    /\ lim.peeked = FullBucket(limiter)

(***************************************************************************)
(* SpecPure: one call of _aggregate_bars or of                             *)
(* aggregate_historical_1m_to_timeframe on a bounded input.                *)
(***************************************************************************)
\* Bar lists of up to MaxHistLen consecutive one-minute bars from time 0.
ConsecutiveInputs ==
    UNION { { [i \in 1..n |-> BarOf(s[i], (i - 1) * SecondsPerMinute)] :
                s \in [1..n -> Shapes] } : n \in 0..MaxHistLen }

\* Minutes around the turn of 1970 to 1971, in chronological order: two of
\* Wed 1970-12-30, the last of Thu 1970-12-31, the first of Fri 1971-01-01,
\* one of Sun 1971-01-03 and two of Mon 1971-01-04.
DatedSlots ==
    << 363 * SecondsPerDay,
       363 * SecondsPerDay + SecondsPerMinute,
       365 * SecondsPerDay - SecondsPerMinute,
       365 * SecondsPerDay,
       367 * SecondsPerDay,
       368 * SecondsPerDay,
       368 * SecondsPerDay + SecondsPerMinute >>

\* What a slot may hold: no bar, or a bar of either shape.
SlotChoices == {<<>>} \cup {<<shape>> : shape \in Shapes}

\* The bars of a choice over the slots from position i on.
RECURSIVE BarsOfChoice(_, _)
BarsOfChoice(choice, i) ==
    IF i > Len(DatedSlots) THEN <<>>
    ELSE [k \in 1..Len(choice[i]) |-> BarOf(choice[i][k], DatedSlots[i])]
         \o BarsOfChoice(choice, i + 1)

\* Chronological bar lists with gaps, across a week and a year boundary.
DatedInputs ==
    { BarsOfChoice(choice, 1) :
        choice \in [1..Len(DatedSlots) -> SlotChoices] }

PureInputs == ConsecutiveInputs \cup DatedInputs

\* The nine timeframe identifiers and one that is none of them.
TfArgs == Timeframes \cup {"2H"}

PureInit ==
    /\ argBars \in PureInputs
    /\ argTf = "1m"
    /\ ret = Returned(<<>>)
    /\ called = "none"
    /\ EngineIdle
    /\ LimiterIdle
    /\ ClientIdle
    /\ MainIdle

CallAggregateBars ==
    /\ called = "none"
    /\ called' = "_aggregate_bars"
    /\ ret' = aggregate_bars(argBars)
    /\ UNCHANGED <<argBars, argTf, engineVars, limiterVars, clientVars, mainVars>>

CallAggregateHistorical ==
    /\ called = "none"
    /\ \E tf \in TfArgs :
        /\ argTf' = tf
        /\ ret' = aggregate_historical_1m_to_timeframe(argBars, tf)
    /\ called' = "aggregate_historical"
    /\ UNCHANGED <<argBars, engineVars, limiterVars, clientVars, mainVars>>

PureNext == CallAggregateBars \/ CallAggregateHistorical

SpecPure == PureInit /\ [][PureNext]_vars

(***************************************************************************)
(* SpecEngine: a fresh TimeframeAggregator fed 1-minute bars in order.     *)
(***************************************************************************)
\* Enough bars to fill the 1D window, complete 5 daily bars, and go on.
MaxFeed == TIMEFRAMES["1D"] + 4 + ExtraFeed

EngineInit == EngineIdle /\ PureIdle /\ LimiterIdle /\ ClientIdle /\ MainIdle

\* The bars of the second shape fed so far.
Spikes(bars) == Cardinality({i \in 1..Len(bars) : bars[i].volume = Spike.volume})

\* The time of the first bar of a feed: the epoch, or three minutes before
\* the end of January 1970.
StartTimes == {0, 31 * SecondsPerDay - 3 * SecondsPerMinute}

\* The times the next bar may carry: a minute after the last bar fed.
NextTimes ==
    IF fed = <<>> THEN StartTimes
    ELSE {fed[Len(fed)].time + SecondsPerMinute}

\* add_1m_bar(bar) with the next minute's bar, of either shape.
Feed ==
    /\ Len(fed) < MaxFeed
    /\ \E shape \in Shapes, time \in NextTimes :
        /\ shape = Spike => Spikes(fed) < MaxSpikes
        /\ \E bar \in {BarOf(shape, time)} :
           \E r \in {add_1m_bar(aggregator, bar)} :
              /\ aggregator' = r.agg
              /\ result' = r.result
              /\ fed' = Append(fed, bar)
    /\ UNCHANGED <<pureVars, limiterVars, clientVars, mainVars>>

EngineNext == Feed

SpecEngine == EngineInit /\ [][EngineNext]_vars

(***************************************************************************)
(* The combine rule of the design, stated apart from the code's merge.     *)
(***************************************************************************)
\* The total volume of the bars from position i to the end.
RECURSIVE VolumeFrom(_, _)
VolumeFrom(bars, i) ==
    IF i > Len(bars) THEN 0 ELSE bars[i].volume + VolumeFrom(bars, i + 1)

IsCombineOf(bar, bars) ==
    /\ bars # <<>>
    /\ bar.time = bars[1].time
    /\ bar.open = bars[1].open
    /\ bar.close = bars[Len(bars)].close
    /\ \A i \in 1..Len(bars) : bar.high >= bars[i].high
    /\ \E i \in 1..Len(bars) : bar.high = bars[i].high
    /\ \A i \in 1..Len(bars) : bar.low <= bars[i].low
    /\ \E i \in 1..Len(bars) : bar.low = bars[i].low
    /\ bar.volume = VolumeFrom(bars, 1)

\* C1: _aggregate_bars returns, for a non-empty list, the bar with the first
\* bar's time and open, the last bar's close, the maximum high, the minimum
\* low and the sum of the volumes; for the empty list it raises an error.
C1_CombineRule ==
    called = "_aggregate_bars" =>
        IF argBars = <<>>
        THEN ret.raised = "ValueError"
        ELSE ret.raised = "none" /\ IsCombineOf(ret.value, argBars)

\* A call on three bars whose result differs from each single input bar.
C1_Witness ==
    /\ called = "_aggregate_bars"
    /\ Len(argBars) = 3
    /\ ret.raised = "none"
    /\ ret.value.high # argBars[1].high
    /\ ret.value.low # argBars[1].low
    /\ ret.value.close # argBars[1].close
    /\ ret.value.volume = 5

\* The timeframes with a fixed count N that the live engine emits from a
\* window of 1-minute bars, 1m included (N = 1).
FixedCountTfs == {"1m"} \cup WindowTfs

\* C2: after k bars fed to a fresh engine, the result of add_1m_bar holds a
\* fixed-count timeframe iff k >= N, and then as a one-element list with the
\* combine of the N most recently fed bars (for 1m, the fed bar itself).
C2_SlidingWindow ==
    LET k == Len(fed) IN
    k >= 1 =>
        \A tf \in FixedCountTfs :
            /\ (tf \in DOMAIN result) <=> (k >= TIMEFRAMES[tf])
            /\ tf \in DOMAIN result =>
                /\ Len(result[tf]) = 1
                /\ IsCombineOf(result[tf][1], LastN(fed, TIMEFRAMES[tf]))
                /\ tf = "1m" => result[tf][1] = fed[k]

\* The 5m window has slid: more than 5 bars fed, the last 5 not all alike
\* and differing from the 5 before them in what they combine to.
C2_Witness ==
    /\ Len(fed) = 6
    /\ "5m" \in DOMAIN result
    /\ "15m" \in DOMAIN result
    /\ "30m" \notin DOMAIN result
    /\ result["5m"][1].time = fed[2].time
    /\ result["5m"][1].high # fed[1].high
    /\ result["5m"][1].volume # result["15m"][1].volume

\* The targets of the batch aggregator that have a fixed count of 1-minute
\* bars per output bar.
ChunkedTfs == {"5m", "15m", "30m", "1H", "4H", "1D"}

\* C3: for a target with fixed count N among 5m, 15m, 30m, 1H, 4H and 1D,
\* aggregate_historical_1m_to_timeframe on L bars returns floor(L/N) bars,
\* the i-th the combine of input bars [i*N, (i+1)*N); the trailing L mod N
\* bars contribute to no output.
C3_HistoricalChunking ==
    (called = "aggregate_historical" /\ argTf \in ChunkedTfs) =>
        LET N == TIMEFRAMES[argTf] IN
        /\ ret.raised = "none"
        /\ Len(ret.value) = Len(argBars) \div N
        /\ \A i \in 1..Len(ret.value) :
              IsCombineOf(ret.value[i],
                          SubSeq(argBars, (i - 1) * N + 1, i * N))

\* The ISO year of a day: the calendar year of the Thursday of its week.
IsoYear(days) == CivilOf(days - IsoWeekday(days) + 4).year

\* The ISO week of a bar, as a number that orders weeks chronologically.
IsoWeekOf(bar) == IsoYear(DateOf(bar.time)) * 100 + IsoWeek(DateOf(bar.time))

\* The bars of a chronological list that fall in one ISO week.
BarsOfIsoWeek(bars, week) == SelectSeq(bars, LAMBDA b : IsoWeekOf(b) = week)

\* C21: for target 1W the batch aggregator returns one bar per ISO week
\* (ISO year and ISO week number) that holds an input bar, in chronological
\* order, each the combine of the daily combines of that week, which for a
\* chronological input is the combine of the input bars of that week.
C21_HistoricalWeekly ==
    (called = "aggregate_historical" /\ argTf = "1W") =>
        LET weeks == SortedSeq({IsoWeekOf(argBars[i]) : i \in 1..Len(argBars)})
        IN
        /\ ret.raised = "none"
        /\ Len(ret.value) = Len(weeks)
        /\ \A j \in 1..Len(weeks) :
              IsCombineOf(ret.value[j], BarsOfIsoWeek(argBars, weeks[j]))


\* C22: aggregate_historical_1m_to_timeframe with target 1M, or with an
\* identifier that is none of the nine timeframes, raises an error and
\* returns nothing, whatever the input list; with target 1m it returns the
\* input list as it is.
C22_MonthlyUnsupported ==
    called = "aggregate_historical" =>
        /\ (IF argTf \in Timeframes THEN argTf = "1M" ELSE TRUE) =>
               /\ ret.raised = "ValueError"
               /\ "value" \notin DOMAIN ret
        /\ argTf = "1m" => ret = Returned(argBars)

\* The call with target 1M on a list that spans more than one calendar day
\* has raised.
C22_Witness ==
    /\ called = "aggregate_historical"
    /\ argTf = "1M"
    /\ Len(argBars) >= 2
    /\ DateOf(argBars[1].time) # DateOf(argBars[Len(argBars)].time)
    /\ ret.raised # "none"


\* C24: an add_1m_bar call after which the 1D window holds its full count
\* of bars appends one bar to the daily-bar list, the combine of that window
\* (the bars fed last); any other call leaves the list as it was; so the
\* list only grows at its end.
C24_DailyCompletion ==
    [][Len(fed') = Len(fed) + 1 =>
         IF Len(aggregator'.buffers["1D"]) = TIMEFRAMES["1D"]
         THEN /\ Len(aggregator'.daily_bars) = Len(aggregator.daily_bars) + 1
              /\ SubSeq(aggregator'.daily_bars, 1, Len(aggregator.daily_bars))
                    = aggregator.daily_bars
              /\ IsCombineOf(aggregator'.daily_bars[Len(aggregator'.daily_bars)],
                             LastN(fed', TIMEFRAMES["1D"]))
         ELSE aggregator'.daily_bars = aggregator.daily_bars]_vars

\* More than five daily bars have been appended, one per call since the 1D
\* window filled, and the first is still in its place.
C24_Witness ==
    /\ Len(aggregator.daily_bars) = 6
    /\ Len(fed) = TIMEFRAMES["1D"] + 5
    /\ IsCombineOf(aggregator.daily_bars[1], SubSeq(fed, 1, TIMEFRAMES["1D"]))
    /\ aggregator.daily_bars[1].volume # aggregator.daily_bars[6].volume


\* C25: the entries of the daily-bar list combine disjoint sets of fed bars:
\* the volumes of the entries together do not exceed the volume fed, and
\* neither does the volume of the 1W or of the 1M output.
C25_DailyBarsDisjoint ==
    /\ VolumeFrom(aggregator.daily_bars, 1) <= VolumeFrom(fed, 1)
    /\ \A tf \in {"1W", "1M"} \cap DOMAIN result :
          result[tf][1].volume <= VolumeFrom(fed, 1)


\* C19: the result of an add_1m_bar call holds 1W iff it holds 1D and the
\* daily-bar list, the bar just appended included, has at least 5 entries;
\* its value is then the combine of the last 5 entries of that list, which
\* with 7 entries are entries 3 to 7.
C19_LiveWeekly ==
    LET days == aggregator.daily_bars
        n == Len(days)
    IN
    Len(fed) >= 1 =>
        /\ ("1W" \in DOMAIN result) <=> ("1D" \in DOMAIN result /\ n >= 5)
        /\ "1W" \in DOMAIN result =>
            /\ Len(result["1W"]) = 1
            /\ IsCombineOf(result["1W"][1], SubSeq(days, n - 4, n))
            /\ result["1D"] = <<days[n]>>

\* Seven daily bars, not all alike, have accumulated and the weekly bar
\* starts at the third of them.
C19_Witness ==
    /\ Len(aggregator.daily_bars) = 7
    /\ "1W" \in DOMAIN result
    /\ result["1W"][1].time = aggregator.daily_bars[3].time
    /\ result["1W"][1].time # aggregator.daily_bars[1].time
    /\ aggregator.daily_bars[1].volume # aggregator.daily_bars[7].volume


\* Two bars of the same calendar month of the same year.
SameMonth(a, b) ==
    /\ MonthOf(a.time) = MonthOf(b.time)
    /\ YearOf(a.time) = YearOf(b.time)

\* Where the longest suffix of days in the month of the last one begins.
MonthStart(days) ==
    CHOOSE j \in 1..Len(days) :
        /\ \A i \in j..Len(days) : SameMonth(days[i], days[Len(days)])
        /\ j > 1 => ~SameMonth(days[j - 1], days[Len(days)])

\* C20: once the daily-bar list is non-empty, the result of add_1m_bar holds
\* 1M as the combine, in list order, of the longest suffix of the daily-bar
\* list whose bars are all of the month and year of the last daily bar.
C20_LiveMonthly ==
    LET days == aggregator.daily_bars IN
    days # <<>> =>
        /\ "1M" \in DOMAIN result
        /\ Len(result["1M"]) = 1
        /\ IsCombineOf(result["1M"][1],
                       SubSeq(days, MonthStart(days), Len(days)))

\* Three daily bars of January are followed by two of February, not alike,
\* and the monthly bar combines the two of February only.
C20_Witness ==
    LET days == aggregator.daily_bars IN
    /\ Len(days) = 5
    /\ MonthOf(days[3].time) = 1
    /\ MonthOf(days[4].time) = 2
    /\ "1M" \in DOMAIN result
    /\ result["1M"][1].time = days[4].time
    /\ result["1M"][1].volume = days[4].volume + days[5].volume
    /\ days[4].volume # days[5].volume

(***************************************************************************)
(* api/websocket_client.py and the tasks main.py's lifespan creates.       *)
(*                                                                         *)
(* The tasks run on one asyncio loop: a step of the model is what a task   *)
(* does between two suspension points (an await that waits for the network *)
(* or a timer).  websockets.connect either returns a connection or raises  *)
(* an error that is not ConnectionClosed (OSError, InvalidHandshake,       *)
(* TimeoutError); iterating a connection ends normally after a clean close *)
(* and raises ConnectionClosed after an abnormal one, as does a send on a  *)
(* closed connection.                                                      *)
(***************************************************************************)
max_reconnect_attempts == 5
base_reconnect_delay == 1

RECURSIVE Pow2(_)
Pow2(n) == IF n = 0 THEN 1 ELSE 2 * Pow2(n - 1)

\* `while self.reconnect_attempts < self.max_reconnect_attempts`: where
\* connect() goes when it reaches the top of its loop: into the next
\* websockets.connect call, or out of the loop.
WhileGuard(c) ==
    IF c.reconnect_attempts < max_reconnect_attempts
    THEN "connecting" ELSE "done"

ClientInit ==
    /\ client = NewClient("A")
    /\ conn = "none"
    /\ inbox = <<>>
    /\ serverSubs = {}
    /\ pc = [connect |-> "created", heartbeat |-> "created",
             close |-> "idle", switch |-> "idle"]
    /\ task = [delay |-> 0, pending |-> <<>>, new_symbol |-> "A",
               target_symbol |-> ""]
    /\ \E b \in BOOLEAN : cl = [NoClientHistory EXCEPT !.appStart = b]
    /\ EngineIdle
    /\ PureIdle
    /\ LimiterIdle
    /\ MainIdle

OtherVars == <<pureVars, limiterVars, mainVars>>

\* run_ws_client starts: connect() runs up to `await websockets.connect`.
ConnectTaskStart ==
    /\ pc.connect = "created"
    /\ pc' = [pc EXCEPT !.connect = WhileGuard(client)]
    /\ UNCHANGED <<client, conn, inbox, serverSubs, task, cl, engineVars, OtherVars>>

\* _subscribe naming the symbol the client was constructed with.
TargetSymbolAtStart(symbol, c) == IF symbol = "" THEN "A" ELSE symbol

\* target_symbol = symbol or self.symbol, in _subscribe ("" for the default
\* None of the parameter).
TargetSymbol(symbol, c) == IF symbol = "" THEN c.symbol ELSE symbol

\* The two assignments after websockets.connect, without the reset.
AfterConnectedKeepingCount(c) == [c EXCEPT !.is_connected = TRUE]

\* self.is_connected = True; self.reconnect_attempts = 0 (lines 82-83).
AfterConnected(c) ==
    [c EXCEPT !.is_connected = TRUE, !.reconnect_attempts = 0]

\* websockets.connect returns a connection: lines 80-85, up to the send of
\* the subscription, which _subscribe has built for the symbol of this moment.  (Under lifespan the heartbeat task, created right after
\* this one, has had its first run before any network call completes.)
ConnectOk ==
    /\ pc.connect = "connecting"
    /\ cl.appStart => pc.heartbeat # "created"
    /\ conn' = "open"
    /\ inbox' = <<>>
    /\ serverSubs' = {}
    /\ client' = AfterConnected(client)
    /\ pc' = [pc EXCEPT !.connect = "subscribing"]
    /\ task' = [task EXCEPT !.target_symbol = TargetSymbol("", client)]
    /\ cl' = [cl EXCEPT !.consecFailures = 0, !.dropped = "none",
                        !.resetFrom = client.reconnect_attempts,
                        !.directives = <<>>]
    /\ UNCHANGED <<engineVars, OtherVars>>

\* websockets.connect raises: `except Exception`, lines 101-104.
ConnectFail ==
    /\ pc.connect = "connecting"
    /\ cl.appStart => pc.heartbeat # "created"
    /\ client' = [client EXCEPT !.is_connected = FALSE]
    /\ pc' = [pc EXCEPT !.connect = "done"]
    /\ cl' = [cl EXCEPT !.consecFailures = @ + 1]
    /\ UNCHANGED <<conn, inbox, serverSubs, task, engineVars, OtherVars>>

\* `except websockets.exceptions.ConnectionClosed`, lines 90-99: the client
\* afterwards, and where connect() stands: in the backoff sleep, or back at
\* the top of the loop with the attempts used up.
AfterConnectionClosed(c) ==
    [c EXCEPT !.is_connected = FALSE, !.reconnect_attempts = @ + 1]

\* Where connect() stands after the handler, and the delay it sleeps.
AfterClosedPc(c) ==
    IF c.reconnect_attempts < max_reconnect_attempts
    THEN "backoff" ELSE WhileGuard(c)

AfterClosedDelay(c, delay) ==
    IF c.reconnect_attempts < max_reconnect_attempts
    THEN base_reconnect_delay * Pow2(c.reconnect_attempts - 1)
    ELSE delay

ConnectionClosedHandler ==
    /\ client' = AfterConnectionClosed(client)
    /\ pc' = [pc EXCEPT !.connect = AfterClosedPc(client')]
    /\ task' = [task EXCEPT !.delay = AfterClosedDelay(client', @)]

\* `await self._subscribe()` of connect(): the directive is sent, or the
\* send finds the connection closed.
SubscribeSent ==
    /\ pc.connect = "subscribing"
    /\ IF conn = "open"
       THEN /\ serverSubs' = serverSubs \cup {task.target_symbol}
            /\ pc' = [pc EXCEPT !.connect = "receiving"]
            /\ cl' = [cl EXCEPT !.directives = Append(@, task.target_symbol),
                                !.resetFrom = 0]
            /\ task' = [task EXCEPT !.target_symbol = ""]
            /\ UNCHANGED client
       ELSE /\ client' = AfterConnectionClosed(client)
            /\ pc' = [pc EXCEPT !.connect = AfterClosedPc(client')]
            /\ task' = [task EXCEPT !.target_symbol = "",
                                    !.delay = AfterClosedDelay(client', @)]
            /\ cl' = [cl EXCEPT !.resetFrom = 0]
            /\ UNCHANGED serverSubs
    /\ UNCHANGED <<conn, inbox, engineVars, OtherVars>>

\* The list comprehension at the head of _process_bars reads six fields of
\* every bar of the frame before any bar is fed: a bar that lacks one raises
\* KeyError for the whole frame.
ConvertBarsLazily(frame) ==
    IF frame.missing = 0
    THEN Returned(frame.series)
    ELSE Returned(SubSeq(frame.series, 1, frame.missing - 1))

ConvertBars(frame) ==
    IF frame.missing = 0
    THEN Returned(frame.series)
    ELSE Raised("KeyError")

\* What _message_loop does with a frame: "pong" for the pong string, "status"
\* for a message that has the key "message", "bars" for one with a non-empty
\* "series", "JSONDecodeError" for a text json.loads rejects.
Dispatch(frame) ==
    CASE frame.kind = "pong" -> "pong"
      [] frame.kind = "garbage" -> "JSONDecodeError"
      [] frame.kind = "status" -> "status"
      [] frame.kind = "data" /\ Len(frame.series) > 0 -> "bars"
      [] OTHER -> "ignored"

\* _message_loop reads the next frame.  A pong, a status message and a frame
\* that does not parse are dropped, and so is a data frame one of whose bars
\* lacks a field; the first bar of a data frame is fed to the aggregator and
\* its updates go to the broadcast callback.
RecvFrame ==
    /\ pc.connect = "receiving"
    /\ inbox # <<>>
    /\ inbox' = Tail(inbox)
    /\ LET frame == Head(inbox)
           bars == ConvertBars(frame)
           fate == IF Dispatch(frame) # "bars" THEN Dispatch(frame)
                   ELSE IF bars.raised # "none" THEN bars.raised ELSE "bars"
       IN
       IF fate = "bars" /\ bars.value # <<>>
       THEN /\ \E r \in {add_1m_bar(aggregator, bars.value[1])} :
                 /\ aggregator' = r.agg
                 /\ result' = r.result
                 /\ fed' = Append(fed, bars.value[1])
                 /\ cl' = [cl EXCEPT !.fedSyms = Append(@, frame.code),
                                     !.dropped = IF @ = "none" THEN "none"
                                                 ELSE "resumed"]
            /\ task' = [task EXCEPT !.pending =
                  [i \in 1..(Len(bars.value) - 1) |->
                      [code |-> frame.code, bar |-> bars.value[i + 1]]]]
            /\ pc' = [pc EXCEPT !.connect = "broadcasting"]
       ELSE /\ cl' = [cl EXCEPT !.dropped =
                         IF fate \in {"JSONDecodeError", "KeyError"}
                         THEN "dropped" ELSE @]
            /\ UNCHANGED <<task, pc, engineVars>>
    /\ UNCHANGED <<client, conn, serverSubs, OtherVars>>

\* The keys of the dict add_1m_bar returns, in the order they were inserted
\* (the order `aggregated.items()` yields them), those with an empty list
\* left out by `if timeframe_bars`.
InsertionOrder == <<"1m", "5m", "15m", "30m", "1H", "4H", "1D", "1W", "1M">>

ItemsOrder(aggregated) ==
    SelectSeq(InsertionOrder,
              LAMBDA tf : IF tf \in DOMAIN aggregated
                          THEN aggregated[tf] # <<>> ELSE FALSE)

\* The awaits of on_bar_update for one bar are over: the callback has
\* returned for each of the n timeframes of the dict, or it has returned for
\* the first n and raised for the next (broadcast_bar_update raises
\* RuntimeError when frontend_clients changes size under its `for`).  After
\* the last timeframe _process_bars feeds the next bar of the frame, or
\* returns to _message_loop; an exception leaves _process_bars and is caught
\* by `except Exception: continue` in _message_loop.
BroadcastDone ==
    /\ pc.connect = "broadcasting"
    /\ \E n \in 0..Len(ItemsOrder(result)) :
        LET forwarded == SubSeq(ItemsOrder(result), 1, n)
            raised == n < Len(ItemsOrder(result))
        IN
        /\ raised => cl.stimuli < MaxStimuli
        /\ IF (IF raised THEN TRUE ELSE task.pending = <<>>)
           THEN /\ pc' = [pc EXCEPT !.connect = "receiving"]
                /\ task' = [task EXCEPT !.pending = <<>>]
                /\ cl' = [cl EXCEPT !.forwarded = forwarded,
                                    !.stimuli = IF raised THEN @ + 1 ELSE @]
                /\ UNCHANGED engineVars
           ELSE /\ \E r \in {add_1m_bar(aggregator, task.pending[1].bar)} :
                     /\ aggregator' = r.agg
                     /\ result' = r.result
                     /\ fed' = Append(fed, task.pending[1].bar)
                /\ cl' = [cl EXCEPT !.fedSyms = Append(@, task.pending[1].code),
                                    !.forwarded = forwarded]
                /\ task' = [task EXCEPT !.pending = Tail(@)]
                /\ UNCHANGED pc
    /\ UNCHANGED <<client, conn, inbox, serverSubs, OtherVars>>

\* `async for message in self.websocket` ends after a clean close:
\* _message_loop returns and connect() is back at the top of its loop.
LoopEndsClean ==
    /\ pc.connect = "receiving"
    /\ inbox = <<>>
    /\ conn = "closed_ok"
    /\ pc' = [pc EXCEPT !.connect = WhileGuard(client)]
    /\ UNCHANGED <<client, conn, inbox, serverSubs, task, cl, engineVars, OtherVars>>

\* The iteration raises ConnectionClosed after an abnormal close.
LoopEndsError ==
    /\ pc.connect = "receiving"
    /\ inbox = <<>>
    /\ conn = "closed_err"
    /\ ConnectionClosedHandler
    /\ UNCHANGED <<conn, inbox, serverSubs, cl, engineVars, OtherVars>>

\* asyncio.sleep(delay) returns: back to the top of the loop.
BackoffDone ==
    /\ pc.connect = "backoff"
    /\ pc' = [pc EXCEPT !.connect = WhileGuard(client)]
    /\ task' = [task EXCEPT !.delay = 0]
    /\ UNCHANGED <<client, conn, inbox, serverSubs, cl, engineVars, OtherVars>>

\* The frames the upstream may send: a data frame of a subscribed symbol
\* with the next minutes' bars, whole or with its last bar lacking a field
\* (missing is the position of that bar, 0 when every bar is whole), a
\* status message, a pong, or a frame that is not JSON.
FrameShapes ==
    { s \in SeriesLengths \X {0, 1, 2} : s[2] \in {0, s[1]} }

Frames ==
    { [kind |-> "data", code |-> sym, missing |-> s[2],
       series |-> [i \in 1..s[1] |->
                     BarOf(Calm, (cl.barsSent + i - 1) * SecondsPerMinute)]] :
        sym \in serverSubs, s \in FrameShapes }
    \cup { [kind |-> k, code |-> "", missing |-> 0, series |-> <<>>] :
             k \in {"status", "pong", "garbage"} }

ServerSend ==
    /\ conn = "open"
    /\ cl.stimuli < MaxStimuli
    /\ \E frame \in Frames :
        /\ inbox' = Append(inbox, frame)
        /\ cl' = [cl EXCEPT !.stimuli = @ + 1,
                            !.barsSent = @ + Len(frame.series)]
    /\ UNCHANGED <<client, conn, serverSubs, pc, task, engineVars, OtherVars>>

\* The upstream, or the network, ends the connection: cleanly or not.
ServerClose ==
    /\ conn = "open"
    /\ cl.stimuli < MaxStimuli
    /\ \E how \in {"closed_ok", "closed_err"} : conn' = how
    /\ cl' = [cl EXCEPT !.stimuli = @ + 1]
    /\ UNCHANGED <<client, inbox, serverSubs, pc, task, engineVars, OtherVars>>

\* heartbeat() starts: `while websocket_client.is_connected`, then the sleep.
\* (Under lifespan the task runs after run_ws_client has reached its first
\* await.)
HeartbeatStart ==
    /\ pc.heartbeat = "created"
    /\ cl.appStart => pc.connect # "created"
    /\ pc' = [pc EXCEPT !.heartbeat =
                 IF client.is_connected THEN "sleeping" ELSE "done"]
    /\ UNCHANGED <<client, conn, inbox, serverSubs, task, cl, engineVars, OtherVars>>

\* asyncio.sleep(interval) returns: send_ping, then the loop test again.
HeartbeatWake ==
    /\ pc.heartbeat = "sleeping"
    /\ cl' = [cl EXCEPT !.lastPing =
                 IF conn = "open" /\ client.is_connected
                 THEN "sent" ELSE "not sent"]
    /\ pc' = [pc EXCEPT !.heartbeat =
                 IF client.is_connected THEN "sleeping" ELSE "done"]
    /\ UNCHANGED <<client, conn, inbox, serverSubs, task, engineVars, OtherVars>>

\* close() is called (lifespan's shutdown): it returns at once when
\* self.websocket is None ("nothing": there was nothing to close), else
\* `await self.websocket.close()`.
CloseStart ==
    /\ pc.close = "idle"
    /\ cl.appStart => (pc.connect # "created" /\ pc.heartbeat # "created")
    /\ IF conn = "none"
       THEN /\ pc' = [pc EXCEPT !.close = "nothing"]
            /\ UNCHANGED conn
       ELSE /\ pc' = [pc EXCEPT !.close = "closing"]
            /\ conn' = IF conn = "open" THEN "closed_ok" ELSE conn
    /\ UNCHANGED <<client, inbox, serverSubs, task, cl, engineVars, OtherVars>>

\* websocket.close() returns: self.is_connected = False.
CloseDone ==
    /\ pc.close = "closing"
    /\ client' = [client EXCEPT !.is_connected = FALSE]
    /\ pc' = [pc EXCEPT !.close = "done"]
    /\ UNCHANGED <<conn, inbox, serverSubs, task, cl, engineVars, OtherVars>>

\* The directive _unsubscribe or _subscribe sends for a symbol.
Directive(op, code) == [op |-> op, code |-> code]

\* `if new_symbol == self.symbol`: nothing to switch.
SameSymbolNever(new_symbol, c) == FALSE

SameSymbol(new_symbol, c) == new_symbol = c.symbol

\* `self.symbol = new_symbol`, between the two sends of switch_symbol.
AfterUnsubscribeKeepingSymbol(c, new_symbol) == c

AfterUnsubscribe(c, new_symbol) == [c EXCEPT !.symbol = new_symbol]

\* switch_symbol(new_symbol) is called: the two tests, then
\* `await self._unsubscribe(self.symbol)`.
SwitchStart ==
    /\ pc.switch = "idle"
    /\ cl.stimuli < MaxStimuli
    /\ \E new_symbol \in Symbols :
        IF ~client.is_connected \/ conn = "none"
        THEN /\ cl' = [cl EXCEPT !.stimuli = @ + 1,
                                 !.lastSwitch = "RuntimeError",
                                 !.switchSent = <<>>]
             /\ task' = [task EXCEPT !.new_symbol = new_symbol]
             /\ UNCHANGED pc
        ELSE IF SameSymbol(new_symbol, client)
        THEN /\ cl' = [cl EXCEPT !.stimuli = @ + 1, !.lastSwitch = "same",
                                 !.switchSent = <<>>]
             /\ task' = [task EXCEPT !.new_symbol = new_symbol]
             /\ UNCHANGED pc
        ELSE /\ cl' = [cl EXCEPT !.stimuli = @ + 1, !.lastSwitch = "running",
                                 !.switchSent = <<>>]
             /\ pc' = [pc EXCEPT !.switch = "unsubscribing"]
             /\ task' = [task EXCEPT !.new_symbol = new_symbol]
    /\ UNCHANGED <<client, conn, inbox, serverSubs, engineVars, OtherVars>>

\* The unsubscribe directive is sent: self.symbol = new_symbol, then
\* `await self._subscribe(new_symbol)`.  A send on a closed connection raises
\* out of switch_symbol.
SwitchUnsubscribed ==
    /\ pc.switch = "unsubscribing"
    /\ IF conn = "open"
       THEN /\ serverSubs' = serverSubs \ {client.symbol}
            /\ client' = AfterUnsubscribe(client, task.new_symbol)
            /\ pc' = [pc EXCEPT !.switch = "subscribing"]
            /\ cl' = [cl EXCEPT !.switchSent =
                         Append(@, Directive("unsubscribe", client.symbol))]
       ELSE /\ pc' = [pc EXCEPT !.switch = "idle"]
            /\ cl' = [cl EXCEPT !.lastSwitch = "failed"]
            /\ UNCHANGED <<serverSubs, client>>
    /\ UNCHANGED <<conn, inbox, task, engineVars, OtherVars>>

\* The subscribe directive is sent: self.aggregator = TimeframeAggregator().
SwitchSubscribed ==
    /\ pc.switch = "subscribing"
    /\ IF conn = "open"
       THEN /\ serverSubs' = serverSubs \cup {task.new_symbol}
            /\ aggregator' = NewAggregator
            /\ fed' = <<>>
            /\ cl' = [cl EXCEPT !.lastSwitch = "completed", !.fedSyms = <<>>,
                                !.switchSent =
                         Append(@, Directive("subscribe", task.new_symbol))]
       ELSE /\ cl' = [cl EXCEPT !.lastSwitch = "failed"]
            /\ UNCHANGED <<serverSubs, aggregator, fed>>
    /\ pc' = [pc EXCEPT !.switch = "idle"]
    /\ UNCHANGED <<client, conn, inbox, task, result, OtherVars>>

ClientNext ==
    \/ ConnectTaskStart
    \/ ConnectOk
    \/ ConnectFail
    \/ SubscribeSent
    \/ RecvFrame
    \/ BroadcastDone
    \/ LoopEndsClean
    \/ LoopEndsError
    \/ BackoffDone
    \/ ServerSend
    \/ ServerClose
    \/ HeartbeatStart
    \/ HeartbeatWake
    \/ CloseStart
    \/ CloseDone
    \/ SwitchStart
    \/ SwitchUnsubscribed
    \/ SwitchSubscribed

SpecClient == ClientInit /\ [][ClientNext]_vars

(***************************************************************************)
(* SpecRetry: connect() and the heartbeat against an upstream that may end *)
(* every connection it has accepted, any number of times.  The event loop  *)
(* runs a task that is ready, and the upstream does end each connection.   *)
(***************************************************************************)
\* The upstream ends a connection it has accepted, cleanly or not.
UpstreamDrops ==
    /\ conn = "open"
    /\ \E how \in {"closed_ok", "closed_err"} : conn' = how
    /\ UNCHANGED <<client, inbox, serverSubs, pc, task, cl, engineVars, OtherVars>>

\* The steps of the task that runs connect().
ConnectTask ==
    \/ ConnectTaskStart
    \/ ConnectOk
    \/ ConnectFail
    \/ SubscribeSent
    \/ RecvFrame
    \/ BroadcastDone
    \/ LoopEndsClean
    \/ LoopEndsError
    \/ BackoffDone

\* The steps of the task that runs heartbeat().
HeartbeatTask == HeartbeatStart \/ HeartbeatWake

RetryNext ==
    \/ ConnectTask
    \/ HeartbeatTask
    \/ ServerSend
    \/ UpstreamDrops

SpecRetry ==
    /\ ClientInit
    /\ [][RetryNext]_vars
    /\ WF_vars(ConnectTask)
    /\ WF_vars(HeartbeatTask)
    /\ WF_vars(UpstreamDrops)

(***************************************************************************)
(* The historical query: main.py get_chart_history over                    *)
(* api/insight_api.py InsightSentryAPI.fetch_historical_data, the cache    *)
(* and the REST client's rate limiter.  The endpoint awaits nothing, so a   *)
(* query runs from entry to response with no other handler in between.      *)
(***************************************************************************)
\* calls of the cache and queries of the endpoint in one run
MaxOps == 3

\* What the upstream may answer to one REST request: a JSON body with a
\* series of 1-minute bars, an HTTP error status (raise_for_status raises
\* HTTPError), a transport failure (requests raises ConnectionError), or a
\* JSON body without the "series" key.
UpstreamSeries(n) == [i \in 1..n |-> BarOf(Calm, (i - 1) * SecondsPerMinute)]
UpstreamReplies ==
    { [kind |-> "ok", series |-> UpstreamSeries(n)] : n \in {1, 2} }
    \cup { [kind |-> k, series |-> <<>>] :
             k \in {"HTTPError", "ConnectionError", "no_series"} }

\* The `bars` query parameter (FastAPI admits 1..20000).
BarsArgs == {1, 2}

\* InsightSentryAPI._parse_response(data).
parse_response(reply) ==
    IF reply.kind = "no_series" THEN Raised("ValueError")
    ELSE Returned(reply.series)

\* `self.rate_limiter.wait_if_needed()` left out before the request.
AdmissionSkipped(l, t) == [limiter |-> l, slept |-> 0]

\* `self.rate_limiter.wait_if_needed()` before the request is built.
Admission(l, t) == WaitIfNeeded(l, t)

\* InsightSentryAPI.fetch_historical_data(symbol, timeframe, bars) with the
\* cache c, the limiter l and the clock t, the upstream answering `reply` if
\* it is asked: the three afterwards, the outcome of each cache.get made
\* (gets), the cache.set calls made (sets), whether a REST request was sent,
\* and what the call returned or raised.
fetch_historical_data(c, l, t, key, bars, reply) ==
    IF key[2] \notin Timeframes
    THEN [cache |-> c, limiter |-> l, now |-> t, gets |-> <<>>, sets |-> {},
          upstream |-> FALSE, ret |-> Raised("ValueError")]
    ELSE LET g == cache_get(c, key) IN
         IF g.value.present
         THEN [cache |-> g.cache, limiter |-> l, now |-> t, gets |-> <<TRUE>>,
               sets |-> {}, upstream |-> FALSE,
               ret |-> Returned(LastN(g.value.bars, bars))]
         ELSE LET w == Admission(l, t)
                  parsed == IF reply.kind \in {"HTTPError", "ConnectionError"}
                            THEN Raised(reply.kind)
                            ELSE parse_response(reply)
                  ok == parsed.raised = "none"
              IN  [cache |-> IF ok THEN cache_set(g.cache, key, parsed.value)
                             ELSE g.cache,
                   limiter |-> w.limiter, now |-> t + w.slept,
                   gets |-> <<FALSE>>,
                   sets |-> IF ok THEN {[key |-> key, bars |-> parsed.value]}
                            ELSE {},
                   upstream |-> TRUE, ret |-> parsed]

\* The HTTP status get_chart_history gives an exception: `except ValueError`
\* is 400 (bad request), `except Exception` 500.
StatusOf(raised) == IF raised = "ValueError" THEN 400 ELSE 500

\* The fields every outcome of get_chart_history shares, from what the
\* fetch f left.
Outcome(f, cach, gets, sets, status, cached, respBars) ==
    [cache |-> cach, limiter |-> f.limiter, now |-> f.now, gets |-> gets,
     sets |-> sets, upstream |-> f.upstream, status |-> status,
     cached |-> cached, respBars |-> respBars]

\* get_chart_history(symbol, timeframe, bars).
get_chart_history(c, l, t, key, bars, reply) ==
    LET g == cache_get(c, key) IN
    IF g.value.present
    THEN [cache |-> g.cache, limiter |-> l, now |-> t, gets |-> <<TRUE>>,
          sets |-> {}, upstream |-> FALSE, status |-> 200, cached |-> TRUE,
          respBars |-> LastN(g.value.bars, bars)]
    ELSE IF key[2] \in {"1D", "1W", "1M"}
    THEN LET f == fetch_historical_data(g.cache, l, t, <<key[1], "1m">>,
                                        bars * 1440, reply)
             gets == <<FALSE>> \o f.gets
         IN  IF f.ret.raised # "none"
             THEN Outcome(f, f.cache, gets, f.sets, StatusOf(f.ret.raised),
                          FALSE, <<>>)
             ELSE LET a == aggregate_historical_1m_to_timeframe(f.ret.value,
                                                                key[2])
                  IN  IF a.raised # "none"
                      THEN Outcome(f, f.cache, gets, f.sets,
                                   StatusOf(a.raised), FALSE, <<>>)
                      ELSE Outcome(f, cache_set(f.cache, key, a.value), gets,
                                   f.sets \cup {[key |-> key, bars |-> a.value]},
                                   200, FALSE, LastN(a.value, bars))
    ELSE LET f == fetch_historical_data(g.cache, l, t, key, bars, reply)
             gets == <<FALSE>> \o f.gets
         IN  IF f.ret.raised # "none"
             THEN Outcome(f, f.cache, gets, f.sets, StatusOf(f.ret.raised),
                          FALSE, <<>>)
             ELSE Outcome(f, f.cache, gets, f.sets, 200, FALSE, f.ret.value)

(***************************************************************************)
(* SpecService: the cache under direct calls and historical queries.       *)
(***************************************************************************)
\* The lists a direct caller stores.
StoredLists == {<<>>, UpstreamSeries(1), UpstreamSeries(2)}

ServiceInit ==
    /\ cache = NewDataCache
    /\ svc = NoServiceHistory
    /\ frontend_clients = {}
    /\ bc = NoBroadcast
    /\ limiter = RateLimiter(25, 60, 0)
    /\ now = 0
    /\ lim = NoHistory
    /\ PureIdle
    /\ EngineIdle
    /\ ClientIdle

ServiceFrame ==
    UNCHANGED <<pureVars, engineVars, clientVars, lim, frontend_clients, bc>>

\* The history after a call that made the cache.get calls `gets` (TRUE: a
\* list was returned) and the cache.set calls `sets`.
Count(gets, b) == Cardinality({i \in 1..Len(gets) : gets[i] = b})
Recorded(h, gets, sets, last) ==
    [h EXCEPT !.ops = @ + 1,
              !.getsHit = @ + Count(gets, TRUE),
              !.getsMiss = @ + Count(gets, FALSE),
              !.lastSet = [k \in CacheKeys |->
                             IF \E x \in sets : x.key = k
                             THEN Entry((CHOOSE x \in sets : x.key = k).bars)
                             ELSE @[k]],
              !.overwritten = @ \cup
                  {x.key : x \in {y \in sets : /\ h.lastSet[y.key].present
                                               /\ h.lastSet[y.key].bars # y.bars}},
              !.last = last]

CallGet ==
    /\ svc.ops < MaxOps
    /\ \E key \in CacheKeys :
        \E r \in {cache_get(cache, key)} :
            /\ cache' = r.cache
            /\ svc' = Recorded(svc, <<r.value.present>>, {},
                               [NoCall EXCEPT !.op = "get", !.key = key,
                                              !.value = r.value])
    /\ UNCHANGED <<limiter, now>>
    /\ ServiceFrame

CallSet ==
    /\ svc.ops < MaxOps
    /\ \E key \in CacheKeys, bars \in StoredLists :
        /\ cache' = cache_set(cache, key, bars)
        /\ svc' = Recorded(svc, <<>>, {[key |-> key, bars |-> bars]},
                           [NoCall EXCEPT !.op = "set", !.key = key,
                                          !.value = Entry(bars)])
    /\ UNCHANGED <<limiter, now>>
    /\ ServiceFrame

CallHas ==
    /\ svc.ops < MaxOps
    /\ \E key \in CacheKeys :
        svc' = Recorded(svc, <<>>, {},
                        [NoCall EXCEPT !.op = "has", !.key = key,
                            !.value = [present |-> cache_has(cache, key),
                                       bars |-> <<>>]])
    /\ UNCHANGED <<cache, limiter, now>>
    /\ ServiceFrame

CallClear ==
    /\ svc.ops < MaxOps
    /\ cache' = cache_clear(cache)
    /\ svc' = [Recorded(svc, <<>>, {}, [NoCall EXCEPT !.op = "clear"])
                 EXCEPT !.lastSet = [k \in CacheKeys |-> Absent],
                        !.overwritten = {}]
    /\ UNCHANGED <<limiter, now>>
    /\ ServiceFrame

CallGetStats ==
    /\ svc.ops < MaxOps
    /\ svc' = Recorded(svc, <<>>, {},
                       [NoCall EXCEPT !.op = "get_stats",
                                      !.stats = cache_get_stats(cache)])
    /\ UNCHANGED <<cache, limiter, now>>
    /\ ServiceFrame

\* One GET /api/chart/history request, from entry to response.
Query ==
    /\ svc.ops < MaxOps
    /\ \E key \in CacheKeys, bars \in BarsArgs, reply \in UpstreamReplies :
        \E r \in {get_chart_history(cache, limiter, now, key, bars, reply)} :
            /\ ~r.upstream => reply = [kind |-> "ok", series |-> UpstreamSeries(1)]
            /\ cache' = r.cache
            /\ limiter' = r.limiter
            /\ now' = r.now
            /\ svc' = Recorded(svc, r.gets, r.sets,
                               [NoCall EXCEPT !.op = "query", !.key = key,
                                   !.bars = bars, !.status = r.status,
                                   !.cached = r.cached,
                                   !.respBars = r.respBars,
                                   !.upstream = r.upstream,
                                   !.reply = IF r.upstream THEN reply.kind
                                             ELSE "none"])
    /\ ServiceFrame

ServiceNext ==
    \/ CallGet
    \/ CallSet
    \/ CallHas
    \/ CallClear
    \/ CallGetStats
    \/ Query

SpecService == ServiceInit /\ [][ServiceNext]_vars

(***************************************************************************)
(* SpecBroadcast: main.py's broadcast_bar_update over frontend_clients,     *)
(* with frontend WebSockets connecting and disconnecting (websocket_chart). *)
(* The call suspends in each `await client.send_json(message)`; a handler   *)
(* of /ws/chart may run meanwhile and add to or remove from the set the     *)
(* `for` is iterating.                                                      *)
(***************************************************************************)
\* connects and disconnects of frontend WebSockets in one run
MaxChanges == 3
\* broadcast_bar_update calls in one run
MaxPasses == 1

BroadcastInit ==
    /\ frontend_clients = {}
    /\ bc = NoBroadcast
    /\ cache = NewDataCache
    /\ svc = NoServiceHistory
    /\ PureIdle
    /\ EngineIdle
    /\ LimiterIdle
    /\ ClientIdle

BroadcastFrame ==
    UNCHANGED <<pureVars, engineVars, limiterVars, clientVars, cache, svc>>

\* websocket_chart: accept, frontend_clients.add(websocket).
FrontendConnect ==
    /\ bc.changes < MaxChanges
    /\ \E w \in Sockets \ bc.seen :
        /\ frontend_clients' = frontend_clients \cup {w}
        /\ bc' = [bc EXCEPT !.seen = @ \cup {w}, !.changes = @ + 1,
                            !.handlers = @ \cup {w}]
    /\ BroadcastFrame

\* set.remove(x): the set afterwards, or KeyError when x is not a member.
set_remove(set, x) ==
    IF x \in set THEN Returned(set \ {x}) ELSE Raised("KeyError")

\* websocket_chart: the receive loop of a handler ends, `finally:
\* frontend_clients.remove(websocket)`; a KeyError leaves the handler.
FrontendDisconnect ==
    /\ bc.changes < MaxChanges
    /\ \E w \in bc.handlers :
        \E r \in {set_remove(frontend_clients, w)} :
            /\ frontend_clients' = IF r.raised = "none" THEN r.value
                                   ELSE frontend_clients
            /\ bc' = [bc EXCEPT !.changes = @ + 1,
                                !.handlers = @ \ {w},
                                !.removal = IF r.raised = "none" THEN "removed"
                                            ELSE r.raised]
    /\ BroadcastFrame

\* broadcast_bar_update is called: it returns at once on an empty set, else
\* the `for` takes a first client and the call suspends in its send_json.
BroadcastStart ==
    /\ ~bc.running
    /\ bc.passes < MaxPasses
    /\ IF frontend_clients = {}
       THEN bc' = [bc EXCEPT !.passes = @ + 1, !.outcome = "returned",
                             !.atStart = {}, !.todo = {}, !.reached = {},
                             !.disconnected_clients = {},
                             !.attempts = [w \in Sockets |-> 0]]
       ELSE \E w \in frontend_clients :
              bc' = [bc EXCEPT !.passes = @ + 1, !.outcome = "running",
                               !.running = TRUE,
                               !.atStart = frontend_clients,
                               !.todo = frontend_clients \ {w},
                               !.reached = {w},
                               !.sending = w,
                               !.disconnected_clients = {},
                               !.attempts = [x \in Sockets |->
                                               IF x = w THEN 1 ELSE 0]]
    /\ UNCHANGED frontend_clients
    /\ BroadcastFrame

\* What the set iterator does when the `for` asks for the next client: it
\* raises RuntimeError ("Set changed size during iteration") when the size is
\* not the one it started with; on an unchanged set it yields a client not
\* yet reached or ends; on a set of the same size with other members it may
\* yield any client it has not reached, a new one included, or end.
IterNext(b, fc) ==
    IF Cardinality(fc) # Cardinality(b.atStart) THEN {"RuntimeError"}
    ELSE IF fc = b.atStart
    THEN (IF b.todo = {} THEN {"end"} ELSE b.todo)
    ELSE (fc \ b.reached) \cup {"end"}

\* The awaited send_json returns or raises (the client is then added to
\* disconnected_clients); the `for` goes on: the next send_json, the
\* difference_update after the loop, or RuntimeError out of the call.
SendDone ==
    /\ bc.running
    /\ \E delivered \in BOOLEAN, nxt \in IterNext(bc, frontend_clients) :
        LET failed == IF delivered THEN bc.disconnected_clients
                      ELSE bc.disconnected_clients \cup {bc.sending}
        IN  CASE nxt = "RuntimeError" ->
                   /\ bc' = [bc EXCEPT !.running = FALSE, !.sending = "none",
                                       !.disconnected_clients = failed,
                                       !.outcome = "RuntimeError"]
                   /\ UNCHANGED frontend_clients
              [] nxt = "end" ->
                   /\ bc' = [bc EXCEPT !.running = FALSE, !.sending = "none",
                                       !.disconnected_clients = failed,
                                       !.outcome = "completed"]
                   /\ frontend_clients' = frontend_clients \ failed
              [] OTHER ->
                   /\ bc' = [bc EXCEPT !.sending = nxt,
                                       !.todo = @ \ {nxt},
                                       !.reached = @ \cup {nxt},
                                       !.disconnected_clients = failed,
                                       !.attempts[nxt] = @ + 1]
                   /\ UNCHANGED frontend_clients
    /\ BroadcastFrame

BroadcastNext ==
    \/ FrontendConnect
    \/ FrontendDisconnect
    \/ BroadcastStart
    \/ SendDone

SpecBroadcast == BroadcastInit /\ [][BroadcastNext]_vars

\* C23: while a call of broadcast_bar_update is inside its `for` over
\* frontend_clients, suspended in a send, no step adds a client to the set
\* or removes one from it.
C23_NoMutationDuringPass ==
    [][(bc.running /\ bc'.running) => frontend_clients' = frontend_clients]_vars


\* C15: when a broadcast pass has ended, every subscriber registered when it
\* started has received exactly one delivery attempt, whatever happened to
\* the deliveries to the others.
C15_BroadcastIsolation ==
    (~bc.running /\ bc.outcome \in {"completed", "RuntimeError"}) =>
        \A w \in bc.atStart : bc.attempts[w] = 1

(***************************************************************************)
(* Properties of the upstream client.                                      *)
(***************************************************************************)

\* C4: connect() gives up only after max_reconnect_attempts (5) consecutive
\* connection failures, and not earlier; when it has given up the client
\* reports a disconnected state.
C4_ReconnectExhaustion ==
    pc.connect = "done" =>
        /\ cl.consecFailures = max_reconnect_attempts
        /\ ~client.is_connected

\* C5: whenever an established connection ends, cleanly, abnormally or by a
\* transport error, with fewer than max_reconnect_attempts attempts used,
\* the client increments reconnect_attempts and waits
\* base_reconnect_delay * 2^(attempts - 1) seconds before it connects again.
Established == {"subscribing", "receiving", "broadcasting"}

C5_ReconnectWithBackoff ==
    [][(/\ pc.connect \in Established
        /\ pc'.connect \notin Established
        /\ client.reconnect_attempts < max_reconnect_attempts)
       => /\ client'.reconnect_attempts = client.reconnect_attempts + 1
          /\ pc'.connect = "backoff"
          /\ task'.delay = base_reconnect_delay
                             * Pow2(client'.reconnect_attempts - 1)]_vars

\* C6: once a close() that closed the connection has completed, connect()
\* starts no further connection attempt, the heartbeat sends no further ping
\* and is_connected stays false.
C6_ShutdownCancelsRecovery ==
    [][pc.close = "done"
       => /\ pc'.connect = "connecting" => pc.connect = "connecting"
          /\ cl'.lastPing = "sent" => cl.lastPing = "sent"
          /\ ~client'.is_connected]_vars

\* C7: with the tasks started as lifespan starts them, the heartbeat is
\* running (in its interval sleep, about to ping) whenever the client
\* reports that it is connected, after a reconnection too; a heartbeat that
\* has returned sends no ping in any later interval.
C7_KeepAliveWhileConnected ==
    (cl.appStart /\ client.is_connected) => pc.heartbeat = "sleeping"

\* C8: after a switch_symbol(new) with new different from the current symbol
\* has completed, the windows hold bars of the new symbol only: the 5m window
\* holds exactly the bars fed since the switch and each of them is a bar of
\* the symbol the client tracks now; bars of the old symbol still in flight
\* are not among them.
C8_SwitchStartsFromEmpty ==
    (cl.lastSwitch = "completed" /\ pc.switch = "idle") =>
        /\ aggregator.buffers["5m"] = LastN(fed, Maxlen("5m"))
        /\ Len(cl.fedSyms) = Len(fed)
        /\ \A i \in 1..Len(cl.fedSyms) : cl.fedSyms[i] = client.symbol

\* C26: when the upstream ends every connection it accepts, connect()
\* eventually leaves its loop for good and makes no further attempt.
C26_BoundedRetry == <>[](pc.connect = "done")


\* C27: is_connected is true only while connect() holds a connection, from
\* the return of websockets.connect to the end of the message loop: it is
\* false before the first connection, between connections and once
\* connect() has returned.
C27_ConnectedFlagTruthful ==
    client.is_connected => pc.connect \in Established


\* C28: reconnect_attempts is within 0..max_reconnect_attempts; it is 0
\* from the moment websockets.connect returns a connection for as long as
\* connect() holds that connection, and whenever is_connected is true.
C28_AttemptCounter ==
    /\ client.reconnect_attempts \in 0..max_reconnect_attempts
    /\ pc.connect \in Established => client.reconnect_attempts = 0
    /\ client.is_connected => client.reconnect_attempts = 0

\* A connection made after a failed one: the counter was 1 when
\* websockets.connect returned and is 0 now.
C28_Witness ==
    /\ pc.connect = "subscribing"
    /\ conn = "open"
    /\ client.is_connected
    /\ cl.resetFrom = 1
    /\ client.reconnect_attempts = 0


\* C29: when websockets.connect returns a connection, connect() builds one
\* subscribe directive for the symbol the client tracks at that moment (the
\* new one after an earlier switch_symbol); it sends that directive, and no
\* other, before _message_loop reads any frame of the connection.
C29_SubscribeOnConnect ==
    [][/\ (pc.connect = "connecting" /\ pc'.connect = "subscribing")
          => /\ task'.target_symbol = client'.symbol
             /\ cl'.directives = <<>>
       /\ (pc.connect = "subscribing" /\ pc'.connect = "receiving")
          => /\ cl'.directives = <<task.target_symbol>>
             /\ task.target_symbol \in serverSubs'
       /\ (pc.connect = "receiving" /\ inbox # <<>> /\ inbox' = Tail(inbox))
          => Len(cl.directives) = 1
       /\ Len(cl'.directives) <= 1]_vars

\* After a completed switch to another symbol and the end of the
\* connection, the next connection has been subscribed to the new symbol.
C29_Witness ==
    /\ pc.connect = "receiving"
    /\ conn = "open"
    /\ cl.lastSwitch = "completed"
    /\ client.symbol = "B"
    /\ cl.directives = <<"B">>
    /\ serverSubs = {"B"}


\* C30: the bars of a frame are fed one after another in the order of the
\* series, none left out; when the forwarding of a fed bar is over, every
\* timeframe of the engine's result has been passed to the callback once, in
\* the order 1m, 5m, 15m, 30m, 1H, 4H, 1D, 1W, 1M, and only then is the next
\* bar fed or the next frame read.
C30_DispatchOrder ==
    [][pc.connect = "broadcasting" =>
         /\ fed' # fed => fed' = Append(fed, task.pending[1].bar)
         /\ pc'.connect = "receiving" => task.pending = <<>>
         /\ (IF fed' # fed THEN TRUE ELSE pc'.connect = "receiving") =>
               cl'.forwarded =
                   SelectSeq(<<"1m", "5m", "15m", "30m", "1H", "4H",
                               "1D", "1W", "1M">>,
                             LAMBDA tf : tf \in DOMAIN result)]_vars


\* C31: every bar of a data frame that was decoded is fed to the engine:
\* while bars of the frame are still waiting, the forwarding of the bar fed
\* before them ends with the next of them being fed, whatever happened to
\* the broadcast of the updates.
C31_NoBarLost ==
    [][(/\ pc.connect = "broadcasting"
        /\ task.pending # <<>>
        /\ task'.pending # task.pending)
       => /\ fed' = Append(fed, task.pending[1].bar)
          /\ task'.pending = Tail(task.pending)]_vars


\* C32: a switch_symbol call for another symbol first sends one unsubscribe
\* directive for the tracked symbol, then makes the new symbol the tracked
\* one, then sends one subscribe directive for the new symbol, and only then
\* replaces the engine by an empty one; nothing else replaces the engine.
C32_SwitchOrder ==
    [][/\ (pc.switch = "idle" /\ pc'.switch = "unsubscribing")
          => /\ task'.new_symbol # client.symbol
             /\ cl'.switchSent = <<>>
             /\ client' = client
             /\ aggregator' = aggregator
       /\ (pc.switch = "unsubscribing" /\ pc'.switch = "subscribing")
          => /\ cl'.switchSent = <<Directive("unsubscribe", client.symbol)>>
             /\ client'.symbol = task.new_symbol
             /\ aggregator' = aggregator
       /\ (pc.switch = "subscribing" /\ cl'.lastSwitch = "completed")
          => /\ Len(cl.switchSent) = 1
             /\ cl.switchSent[1].code # client.symbol
             /\ cl'.switchSent =
                    <<cl.switchSent[1], Directive("subscribe", client.symbol)>>
             /\ client' = client
             /\ aggregator' = NewAggregator
             /\ fed' = <<>>
       /\ (aggregator # NewAggregator /\ aggregator' = NewAggregator)
          => /\ pc.switch = "subscribing"
             /\ cl'.lastSwitch = "completed"]_vars

\* A completed switch from "A" to "B" on a connection whose earlier frames
\* have all been read.
C32_Witness ==
    /\ pc.switch = "idle"
    /\ cl.lastSwitch = "completed"
    /\ cl.switchSent = <<Directive("unsubscribe", "A"),
                         Directive("subscribe", "B")>>
    /\ client.symbol = "B"
    /\ aggregator = NewAggregator
    /\ conn = "open"
    /\ cl.barsSent > 0
    /\ inbox = <<>>


\* A step in which switch_symbol is called: the one stimulus that leaves
\* the inbox, the connection and connect()'s position alone.
SwitchCalled ==
    /\ pc.switch = "idle"
    /\ cl'.stimuli # cl.stimuli
    /\ inbox' = inbox
    /\ conn' = conn
    /\ pc'.connect = pc.connect

\* C33: switch_symbol called while is_connected is false or there is no
\* connection raises RuntimeError, and called with the tracked symbol
\* returns normally; in both cases no directive is sent and the tracked
\* symbol, the upstream's subscriptions and the engine are as before.
C33_InapplicableSwitch ==
    [][SwitchCalled =>
         /\ cl'.lastSwitch = "RuntimeError"
               <=> (~client.is_connected \/ conn = "none")
         /\ cl'.lastSwitch = "same"
               <=> /\ client.is_connected
                   /\ conn # "none"
                   /\ task'.new_symbol = client.symbol
         /\ cl'.lastSwitch \in {"RuntimeError", "same"}
               => /\ cl'.switchSent = <<>>
                  /\ pc'.switch = "idle"
                  /\ serverSubs' = serverSubs
                  /\ client' = client
                  /\ aggregator' = aggregator
                  /\ fed' = fed]_vars

\* A call with the tracked symbol has returned on an open connection whose
\* engine holds bars.
C33_Witness ==
    /\ cl.lastSwitch = "same"
    /\ client.is_connected
    /\ conn = "open"
    /\ task.new_symbol = client.symbol
    /\ serverSubs = {client.symbol}
    /\ fed # <<>>
    /\ pc.switch = "idle"


\* C34: when a send of switch_symbol fails on a client whose engine holds
\* bars, the tracked symbol has changed exactly if the engine has been
\* replaced by an empty one.
C34_FailedSwitchConsistent ==
    [][(pc.switch # "idle" /\ cl'.lastSwitch = "failed" /\ fed # <<>>) =>
         LET old_symbol == IF cl.switchSent = <<>> THEN client.symbol
                           ELSE cl.switchSent[1].code
         IN (client'.symbol # old_symbol)
               <=> (aggregator' = NewAggregator /\ fed' = <<>>)]_vars


\* A frame the loop cannot use: a text that is not JSON, or a data frame one
\* of whose bars lacks a field.
IsMalformed(frame) ==
    IF frame.kind = "data" THEN frame.missing # 0 ELSE frame.kind = "garbage"

\* C16: when _message_loop reads a frame that does not parse or whose bar
\* lacks a field, the aggregator, its last result, the bars fed, the client
\* object and the connection stay as they were and the loop stays ready for
\* the next frame; and the loop is left only once the connection is no
\* longer open.
C16_MalformedDropped ==
    [][/\ (/\ pc.connect = "receiving"
           /\ inbox # <<>>
           /\ inbox' = Tail(inbox)
           /\ IsMalformed(Head(inbox)))
          => /\ aggregator' = aggregator
             /\ result' = result
             /\ fed' = fed
             /\ client' = client
             /\ conn' = conn
             /\ pc'.connect = "receiving"
       /\ (/\ pc.connect \in {"receiving", "broadcasting"}
           /\ pc'.connect \notin {"receiving", "broadcasting"})
          => conn # "open"]_vars

\* A frame was dropped for a parse error or a missing field and a later
\* frame of the same connection has been fed to the aggregator.
C16_Witness ==
    /\ conn = "open"
    /\ cl.dropped = "resumed"
    /\ fed # <<>>

(***************************************************************************)
(* Properties of the cache and of the historical query.                    *)
(***************************************************************************)

\* C12: a historical query's response carries cached = true if and only if
\* no upstream REST request was sent while serving it: every response with
\* cached = false involved a fresh upstream call.
C12_CachedFlag ==
    (svc.last.op = "query" /\ svc.last.status = 200) =>
        (svc.last.cached <=> ~svc.last.upstream)

\* C13: after any sequence of get, set, has, clear and get_stats calls
\* (concurrent ones are serialised by the lock), cache_hits is the number of
\* get calls that returned a list and cache_misses the number that returned
\* None; get_stats reports these numbers; no other method changes them.
C13_ExactCounters ==
    /\ cache.cache_hits = svc.getsHit
    /\ cache.cache_misses = svc.getsMiss
    /\ svc.last.op = "get_stats" =>
          /\ svc.last.stats.cache_hits = svc.getsHit
          /\ svc.last.stats.cache_misses = svc.getsMiss

\* A hit and a miss were counted and get_stats has just reported them.
C13_Witness ==
    /\ svc.last.op = "get_stats"
    /\ svc.getsHit >= 1
    /\ svc.getsMiss >= 1
    /\ svc.last.stats.cache_hits + svc.last.stats.cache_misses >= 2

\* C14: for every key, the cache holds exactly the list passed to the most
\* recent set on that key since the last clear (overwritten, not merged),
\* and nothing if there was none; a get returns just that; a set on one key
\* changes no other key.
C14_CacheContents ==
    /\ \A k \in CacheKeys : cache.store[k] = svc.lastSet[k]
    /\ svc.last.op = "get" => svc.last.value = svc.lastSet[svc.last.key]

\* A get on a key whose list a later set had replaced by a different one,
\* with another key stored as well.
C14_Witness ==
    /\ svc.last.op = "get"
    /\ svc.last.key \in svc.overwritten
    /\ svc.last.value.present
    /\ svc.last.value.bars # <<>>

\* C17: a historical query with an unknown timeframe identifier leaves the
\* cache contents, the hit and miss counters and the rate limiter unchanged
\* and sends no upstream request.
C17_ValidationAtBoundary ==
    [][(/\ svc'.ops = svc.ops + 1
        /\ svc'.last.op = "query"
        /\ svc'.last.key[2] \notin Timeframes)
       => /\ cache' = cache
          /\ limiter' = limiter
          /\ ~svc'.last.upstream]_vars

\* C18: a historical query that fails because of the upstream (HTTP error,
\* transport failure, response without "series") is reported as an upstream
\* failure (500), never as a bad request (400).
C18_ErrorCategories ==
    (/\ svc.last.op = "query"
     /\ svc.last.reply \in {"HTTPError", "ConnectionError", "no_series"})
    => svc.last.status = 500

\* A step that is one historical query, from entry to response.
QueryStep == svc'.ops = svc.ops + 1 /\ svc'.last.op = "query"

\* C35: a historical query that finds its key in the cache takes no token
\* and sends no upstream request; one that does not takes exactly one token
\* for the upstream request it sends and none when it sends none, and when
\* it answers 200 the requested key is stored, so that the same query made
\* again at once is answered from the cache without an upstream request.
C35_MissPathOrder ==
    [][QueryStep =>
         LET q == svc'.last
             hit == cache.store[q.key].present
             again == get_chart_history(cache', limiter', now', q.key, q.bars,
                                        [kind |-> "HTTPError", series |-> <<>>])
         IN /\ hit => /\ ~q.upstream
                      /\ limiter' = limiter
                      /\ now' = now
            /\ ~q.upstream => limiter' = limiter
            /\ (q.upstream /\ now' = now) =>
                  GetAvailableTokens(limiter', now')
                     = GetAvailableTokens(limiter, now) - OneToken(limiter)
            /\ (~hit /\ q.status = 200) =>
                  /\ cache'.store[q.key].present
                  /\ again.cached
                  /\ again.status = 200
                  /\ ~again.upstream]_vars

\* A query for a key not in the cache was answered 200 after one upstream
\* request: a token is gone and the key is stored.
C35_Witness ==
    /\ svc.last.op = "query"
    /\ svc.last.status = 200
    /\ ~svc.last.cached
    /\ svc.last.upstream
    /\ cache.store[svc.last.key].present
    /\ GetAvailableTokens(limiter, now) = FullBucket(limiter) - OneToken(limiter)


\* C36: every historical query adds exactly one to cache_hits +
\* cache_misses: a hit when it is answered from the cache, a miss otherwise.
C36_OneCountPerQuery ==
    [][QueryStep =>
         /\ cache'.cache_hits + cache'.cache_misses
               = cache.cache_hits + cache.cache_misses + 1
         /\ svc'.last.cached <=> cache'.cache_hits = cache.cache_hits + 1]_vars


\* C37: a historical query that ends in an error (400 or 500) leaves the
\* keys of the cache and the list stored under each of them as they were.
C37_FailedQueryKeepsCache ==
    [][(QueryStep /\ svc'.last.status # 200) => cache'.store = cache.store]_vars

(***************************************************************************)
(* Properties of the frontend handlers.                                    *)
(***************************************************************************)

\* C38: the removal a handler of /ws/chart makes when it ends never raises,
\* also when a broadcast pass has pruned the socket after a failed send;
\* the sockets in frontend_clients are those of handlers still running.
C38_UnregisterSafe ==
    /\ bc.removal \in {"none", "removed"}
    /\ frontend_clients \subseteq bc.handlers

====
